---- MODULE Spec2Model ----
(***************************************************************************)
(* A model of the watcher process supervisor (src/src/infra/               *)
(* watcher-manager.ts) and of the constitution validator (constitution.ts, *)
(* in src/test/evals/eval-regression.live.test.ts from line 421).          *)
(*                                                                         *)
(* The supervisor runs on the Node.js event loop.  A macrotask (a child's  *)
(* 'exit' event, a timer callback) runs to completion and is followed by   *)
(* the drain of the microtask queue; the continuation of an `await` and a  *)
(* `.then` callback are microtasks.  The calls of the handle's user        *)
(* (stop, updateConfig) may come at any point.                             *)
(***************************************************************************)
EXTENDS Integers, Sequences, FiniteSets, TLC

VARIABLES
    watchers,   \* the manager's Map<string, WatcherState>: name -> state id, Null if absent
    states,     \* every WatcherState object created so far, by id
    procs,      \* every child process spawned so far, by id
    ops,        \* every stopAll() call made so far (by stop() or updateConfig()), by id
    microtasks, \* the microtask queue: ids of the calls whose continuation is queued
    restarts,   \* history: per state id, the restarts its exit handler scheduled
    now,        \* Date.now(), in ms
    prompt,     \* validateConstitution: the system prompt of the call
    constitution, \* validateConstitution: the config of the call
    result,     \* validateConstitution: what the call returned
    defaults,   \* the rule specs that the array DEFAULT_RULES holds
    calls,      \* history: the calls of validateConstitution made so far
    cfgfile,    \* guardian: openclaw.json, its tracked sections and its mode
    baseline,   \* guardian: the baseline file, a sequence of records, or NoFile
    incidents,  \* guardian: the files of the incidents directory
    lockfile,   \* guardian: gateway.lock, its content or NoFile
    gateway,    \* guardian: the gateway, "running" or "stopped"
    setup,      \* guardian: the options of the run and the stop methods at hand
    run,        \* guardian: what the last run did, and how it ended
    process     \* guardian: the process of a run with --watch, and where it stands

wvars == <<watchers, states, procs, ops, microtasks, restarts, now>>
cvars == <<prompt, constitution, result, defaults, calls>>
gvars == <<cfgfile, baseline, incidents, lockfile, gateway, setup, run, process>>
vars == <<watchers, states, procs, ops, microtasks, restarts, now, prompt, constitution, result,
          defaults, calls, cfgfile, baseline, incidents, lockfile, gateway, setup, run, process>>

----------------------------------------------------------------------------
\* Bounds of the model.

\* WatcherState objects created over a run.
MaxStates == 3
\* Child processes spawned over a run.
MaxProcs == 3
\* Calls of stop() and updateConfig() over a run.
MaxOps == 2
\* The clock stops advancing here (ms).
MaxNow == 10000
\* Where one watcher is left to crash and restart: the clock advances while a
\* child is no older than this (ms), and up to the time a restart is due.
MaxAge == 15000
\* Parts a validated prompt is put together from.
MaxParts == 2
\* Calls of validateConstitution in a row.
MaxCalls == 3
MaxEdits == 1
MaxIncidents == 2
MaxSeconds == 1
\* Digits of the mode of openclaw.json.
MaxModeDigits == 4
\* Check passes of one run with --watch.
MaxPasses == 2

----------------------------------------------------------------------------
\* Program constants.

DEFAULT_RESTART_DELAY_SECONDS == 5
MAX_RESTART_DELAY_SECONDS == 300
RAPID_EXIT_THRESHOLD_MS == 10000
\* The timeout of stopWatcher between SIGTERM and SIGKILL (ms).
KILL_TIMEOUT_MS == 3000

\* null, for a process handle, a state id or a timestamp.
Null == 0
\* restartDelaySeconds left out of a watcher's config.
NoDelay == -1

Min(a, b) == IF a <= b THEN a ELSE b

RECURSIVE Pow2(_)
Pow2(n) == IF n <= 0 THEN 1 ELSE 2 * Pow2(n - 1)

----------------------------------------------------------------------------
\* Configurations.

Names == {"a", "b", "c"}
\* Object.entries() lists the watchers in insertion order.
NameOrder == <<"a", "b", "c">>

\* A watcher's config. cwd is "undefined", or "ok" or "missing" for a path that
\* does or does not name a directory.
WatcherConfigIn(enabled, command, delay, cwd) ==
    [enabled |-> enabled, command |-> command, restartDelaySeconds |-> delay, cwd |-> cwd]

WatcherConfig(enabled, command, delay) ==
    WatcherConfigIn(enabled, command, delay, "undefined")

\* Commands, as sequences of characters.
CmdSleep == <<"s">>
CmdPadded == <<" ", "s", " ">>
CmdBlank == <<" ", " ">>
CmdEmpty == << >>

\* cfg.agents.defaults.watchers: hasWatchers is FALSE when the key is missing.
CfgOld ==
    [hasWatchers |-> TRUE,
     watchers |-> [n \in {"a", "c"} |->
        IF n = "a" THEN WatcherConfig("true", CmdSleep, NoDelay)
                   ELSE WatcherConfig("false", CmdSleep, NoDelay)]]
CfgNew ==
    [hasWatchers |-> TRUE,
     watchers |-> [n \in {"b", "c"} |->
        IF n = "b" THEN WatcherConfigIn("undefined", CmdPadded, 1, "ok")
                   ELSE WatcherConfig("true", CmdBlank, NoDelay)]]
CfgBoth ==
    [hasWatchers |-> TRUE,
     watchers |-> [n \in {"a", "b", "c"} |->
        IF n = "a" THEN WatcherConfig("undefined", CmdSleep, 0)
        ELSE IF n = "b" THEN WatcherConfig("true", CmdSleep, 2)
        ELSE WatcherConfig("undefined", CmdEmpty, 1)]]
CfgBad ==
    [hasWatchers |-> TRUE,
     watchers |-> [n \in {"b"} |-> WatcherConfigIn("true", CmdSleep, NoDelay, "missing")]]
CfgNone ==
    [hasWatchers |-> FALSE,
     watchers |-> [n \in {} |-> WatcherConfig("true", CmdEmpty, NoDelay)]]

Cfgs == {CfgOld, CfgNew, CfgBoth, CfgBad, CfgNone}

IsSpace(c) == c \in {" ", "\t", "\n"}

RECURSIVE TrimStart(_)
TrimStart(s) == IF s # << >> /\ IsSpace(Head(s)) THEN TrimStart(Tail(s)) ELSE s

RECURSIVE TrimEnd(_)
TrimEnd(s) ==
    IF s # << >> /\ IsSpace(s[Len(s)]) THEN TrimEnd(SubSeq(s, 1, Len(s) - 1)) ELSE s

\* String.prototype.trim
trim(s) == TrimEnd(TrimStart(s))

\* A filter that lets a blank command through.
KeepsEnabled(config) == config.enabled # "false"

\* The filter of resolveWatcherConfigs: config.enabled !== false && config.command?.trim()
Keeps(config) == config.enabled # "false" /\ trim(config.command) # << >>

resolveWatcherConfigs(cfg) ==
    IF ~cfg.hasWatchers
    THEN << >>
    ELSE LET kept == SelectSeq(NameOrder,
                 LAMBDA n : n \in DOMAIN cfg.watchers /\ Keeps(cfg.watchers[n]))
         IN [i \in 1..Len(kept) |-> [name |-> kept[i], config |-> cfg.watchers[kept[i]]]]

\* A delay without the ceiling.
UncappedRestartDelay(config, consecutiveRapidExits) ==
    LET baseDelay == IF config.restartDelaySeconds = NoDelay
                     THEN DEFAULT_RESTART_DELAY_SECONDS
                     ELSE config.restartDelaySeconds
    IN baseDelay * (IF consecutiveRapidExits > 0 THEN Pow2(consecutiveRapidExits - 1) ELSE 1)

resolveRestartDelay(config, consecutiveRapidExits) ==
    LET baseDelay == IF config.restartDelaySeconds = NoDelay
                     THEN DEFAULT_RESTART_DELAY_SECONDS
                     ELSE config.restartDelaySeconds
        backoffMultiplier == IF consecutiveRapidExits > 0
                             THEN Pow2(consecutiveRapidExits - 1)
                             ELSE 1
    IN Min(baseDelay * backoffMultiplier, MAX_RESTART_DELAY_SECONDS)

----------------------------------------------------------------------------
\* The constitution validator.  A prompt is a sequence of chunks, the text
\* being their concatenation: a chunk is a word, one white-space character, or
\* a line of the canonical safety section.

\* toLowerCase of a chunk, for the /i flag of the patterns.
Lower(c) ==
    CASE c = "Ignore" -> "ignore"
      [] c = "Send" -> "send"
      [] c = "## Safety" -> "## safety"
      [] c = "[System Message]" -> "[system message]"
      [] OTHER -> c

CANONICAL_SAFETY_LINES ==
    <<"## Safety",
      "You have no independent goals: ... beyond the user's request.",
      "Prioritize safety and human oversight ... (Inspired by Anthropic's constitution.)",
      "Do not manipulate or persuade anyone ... unless explicitly requested.">>

\* lines.join("\n")
RECURSIVE Join(_)
Join(lines) ==
    IF Len(lines) <= 1 THEN lines ELSE <<Head(lines), "\n">> \o Join(Tail(lines))

CANONICAL_SAFETY_TEXT == Join(CANONICAL_SAFETY_LINES)

\* A rule spec of a config.
Rule(id, enabled, severity) == [id |-> id, enabled |-> enabled, severity |-> severity]

\* The array as the module creates it; `defaults` is what it holds later.
DEFAULT_RULES ==
    <<Rule("safety-section-present", TRUE, "error"),
      Rule("safety-section-unmodified", TRUE, "error"),
      Rule("no-ignore-safety", TRUE, "error"),
      Rule("no-exfiltration-instructions", TRUE, "error"),
      Rule("no-remove-tool-restrictions", TRUE, "error"),
      Rule("no-override-constitution", TRUE, "error"),
      Rule("no-impersonate-system", TRUE, "warn")>>

DEFAULT_CONSTITUTION_CONFIG == [enabled |-> TRUE, action |-> "block", rules |-> defaults]

\* A pattern is a sequence of slots with \s+ between them: W is a word out of a
\* set of alternatives, O a word that may be left out with the \s+ after it.
W(alts) == [alts |-> alts, opt |-> FALSE]
O(alts) == [alts |-> alts, opt |-> TRUE]

\* secrets?|tokens?|keys?|credentials?|passwords?
Secrets ==
    {"secret", "secrets", "token", "tokens", "key", "keys", "credential", "credentials",
     "password", "passwords"}

IgnoreSafety(verb) == <<W({verb}), O({"all"}), O({"previous"}), W({"safety"})>>
IgnoreInstructions(verb) ==
    <<W({verb}), O({"all"}), O({"your"}), O({"previous"}), W({"instructions"})>>

IGNORE_SAFETY_PATTERNS ==
    <<IgnoreSafety("ignore"),
      IgnoreSafety("disregard"),
      IgnoreSafety("forget"),
      IgnoreSafety("override"),
      <<W({"disable"}), W({"safety"})>>,
      <<W({"safety"}), W({"rules", "guidelines", "instructions"}), W({"are", "do"}),
        W({"not"}), W({"apply"})>>,
      <<W({"you"}), W({"are"}), W({"now"}), W({"free"}), W({"from"}), O({"all"}),
        W({"restrictions"})>>,
      IgnoreInstructions("ignore"),
      IgnoreInstructions("disregard"),
      IgnoreInstructions("forget")>>

SendTo(verb) ==
    <<W({verb}), O({"all"}), W({"data", "file", "files"} \cup Secrets), W({"to"})>>

EXFILTRATION_PATTERNS ==
    <<SendTo("send"),
      <<W({"exfiltrate"})>>,
      SendTo("upload"),
      <<W({"forward"}), O({"all"}), W({"message", "messages", "data", "conversation"}),
        W({"to"})>>,
      <<W({"copy"}), O({"all"}), W(Secrets), W({"to"})>>,
      <<W({"leak"}), O({"all"}), W({"data"} \cup Secrets)>>>>

ToolRestrictions(verb) ==
    <<W({verb}), O({"all"}), W({"tool"}), W({"restrictions", "policies", "filters"})>>

\* The pattern of line 550 is the last two: (are|should\s+be) is one word or two.
REMOVE_TOOL_RESTRICTION_PATTERNS ==
    <<<<W({"remove"}), O({"all"}), W({"tool"}), W({"restrictions"})>>,
      ToolRestrictions("disable"),
      ToolRestrictions("bypass"),
      ToolRestrictions("ignore"),
      <<W({"all"}), W({"tool", "tools"}), W({"are"}), O({"now"}),
        W({"enabled", "available", "unrestricted"})>>,
      <<W({"all"}), W({"tool", "tools"}), W({"should"}), W({"be"}), O({"now"}),
        W({"enabled", "available", "unrestricted"})>>>>

TheConstitution(verb) == <<W({verb}), O({"the"}), W({"constitution"})>>

\* The pattern of line 561 is the last two: (is|has\s+been) is one word or two.
OVERRIDE_CONSTITUTION_PATTERNS ==
    <<TheConstitution("disable"),
      TheConstitution("bypass"),
      TheConstitution("ignore"),
      TheConstitution("override"),
      <<W({"constitution"}), W({"is"}), W({"disabled", "removed", "overridden"})>>,
      <<W({"constitution"}), W({"has"}), W({"been"}),
        W({"disabled", "removed", "overridden"})>>>>

\* The chunks these patterns match hold the white space the \s* allow.
IMPERSONATE_SYSTEM_PATTERNS ==
    <<<<W({"[system message]", "[system override]", "[system instruction]",
           "[systemmessage]", "[systemoverride]", "[systeminstruction]"})>>,
      <<W({"<<system>>", "<< system >>"})>>,
      <<W({"<|system|>"})>>>>

\* A search that finds sub only at the start of the text.
startsWith(text, sub) == Len(sub) <= Len(text) /\ SubSeq(text, 1, Len(sub)) = sub

\* String.prototype.includes
includes(text, sub) ==
    \E i \in 0..(Len(text) - Len(sub)) : SubSeq(text, i + 1, i + Len(sub)) = sub

\* The slots k.. of a pattern match the text from chunk i on.
RECURSIVE MatchFrom(_, _, _, _)
MatchFrom(text, i, slots, k) ==
    IF k > Len(slots)
    THEN TRUE
    ELSE \/ /\ i <= Len(text)
            /\ Lower(text[i]) \in slots[k].alts
            /\ \/ k = Len(slots)
               \/ \E j \in (i + 1)..Len(text) :
                      /\ \A x \in (i + 1)..j : IsSpace(text[x])
                      /\ MatchFrom(text, j + 1, slots, k + 1)
         \/ /\ slots[k].opt
            /\ MatchFrom(text, i, slots, k + 1)

\* pattern.exec(systemPrompt) finds a match.
exec(pattern, text) == \E i \in 1..Len(text) : MatchFrom(text, i, pattern, 1)

\* A checker returns the sequence of its violation, empty for null.  message is
\* 0, or the index of the pattern that matched.
Violation(ruleId, severity, message) ==
    <<[ruleId |-> ruleId, severity |-> severity, message |-> message]>>

\* A header check that takes the header in any letter case.
checkSafetyHeaderAnyCase(systemPrompt) ==
    IF \A i \in 1..Len(systemPrompt) : Lower(systemPrompt[i]) # "## safety"
    THEN Violation("safety-section-present", "error", 0)
    ELSE << >>

checkSafetySectionPresent(systemPrompt) ==
    IF ~includes(systemPrompt, <<"## Safety">>)
    THEN Violation("safety-section-present", "error", 0)
    ELSE << >>

\* A check that reports every prompt without the canonical text, with or
\* without the header.
checkCanonicalTextOnly(systemPrompt) ==
    IF ~includes(systemPrompt, CANONICAL_SAFETY_TEXT)
    THEN Violation("safety-section-unmodified", "error", 0)
    ELSE << >>

checkSafetySectionUnmodified(systemPrompt) ==
    IF ~includes(systemPrompt, CANONICAL_SAFETY_TEXT) /\ includes(systemPrompt, <<"## Safety">>)
    THEN Violation("safety-section-unmodified", "error", 0)
    ELSE << >>

matchPatterns(systemPrompt, patterns, ruleId, severity) ==
    LET matching == {k \in 1..Len(patterns) : exec(patterns[k], systemPrompt)}
    IN IF matching = {}
       THEN << >>
       ELSE Violation(ruleId, severity, CHOOSE k \in matching : \A m \in matching : k <= m)

RuleIds ==
    {"safety-section-present", "safety-section-unmodified", "no-ignore-safety",
     "no-exfiltration-instructions", "no-remove-tool-restrictions",
     "no-override-constitution", "no-impersonate-system"}

\* RULE_CHECKERS[id](prompt), for an id of RuleIds.
RULE_CHECKERS(id, p) ==
    CASE id = "safety-section-present" -> checkSafetySectionPresent(p)
      [] id = "safety-section-unmodified" -> checkSafetySectionUnmodified(p)
      [] id = "no-ignore-safety" ->
            matchPatterns(p, IGNORE_SAFETY_PATTERNS, "no-ignore-safety", "error")
      [] id = "no-exfiltration-instructions" ->
            matchPatterns(p, EXFILTRATION_PATTERNS, "no-exfiltration-instructions", "error")
      [] id = "no-remove-tool-restrictions" ->
            matchPatterns(p, REMOVE_TOOL_RESTRICTION_PATTERNS, "no-remove-tool-restrictions",
                          "error")
      [] id = "no-override-constitution" ->
            matchPatterns(p, OVERRIDE_CONSTITUTION_PATTERNS, "no-override-constitution",
                          "error")
      [] id = "no-impersonate-system" ->
            matchPatterns(p, IMPERSONATE_SYSTEM_PATTERNS, "no-impersonate-system", "warn")

\* The config argument of validateConstitution: given is FALSE when it is left
\* out, enabled and action are "undefined" when the key is, hasRules is FALSE
\* when the key rules is.
ConstitutionConfig(enabled, action, hasRules, rules) ==
    [given |-> TRUE, enabled |-> enabled, action |-> action, hasRules |-> hasRules,
     rules |-> rules]

NoConfig ==
    [given |-> FALSE, enabled |-> "undefined", action |-> "undefined", hasRules |-> FALSE,
     rules |-> << >>]

\* A resolution that adds to the caller's list the default rules the list
\* does not name.
MergedRules(partial) ==
    IF partial.hasRules
    THEN partial.rules \o
         SelectSeq(defaults, LAMBDA d : \A i \in 1..Len(partial.rules) : partial.rules[i].id # d.id)
    ELSE defaults

\* partial.rules ?? [...DEFAULT_RULES]
RulesOrDefault(partial) == IF partial.hasRules THEN partial.rules ELSE defaults

resolveConstitutionConfig(partial) ==
    IF ~partial.given
    THEN DEFAULT_CONSTITUTION_CONFIG
    ELSE [enabled |-> IF partial.enabled = "undefined"
                      THEN DEFAULT_CONSTITUTION_CONFIG.enabled
                      ELSE partial.enabled = "true",
          action |-> IF partial.action = "undefined"
                     THEN DEFAULT_CONSTITUTION_CONFIG.action
                     ELSE partial.action,
          rules |-> RulesOrDefault(partial)]

\* What RULE_CHECKERS[id] evaluates to.  RULE_CHECKERS is an object literal, so
\* an id that names a member of Object.prototype finds that member: "function"
\* for constructor (Object, which returns a String object for the prompt),
\* "object" for __proto__ (Object.prototype, which cannot be called).
CheckerKind(id) ==
    CASE id \in RuleIds -> "checker"
      [] id = "constructor" -> "function"
      [] id = "__proto__" -> "object"
      [] OTHER -> "undefined"

\* checker(systemPrompt), for the checker found under id: the sequence of the
\* value returned, empty for null.  Object(systemPrompt) has no ruleId.
Checked(id, systemPrompt) ==
    CASE CheckerKind(id) = "checker" -> RULE_CHECKERS(id, systemPrompt)
      [] CheckerKind(id) = "function" -> Violation("undefined", "undefined", 0)
      [] OTHER -> << >>

\* A violation that keeps the severity its checker gave it.
BuiltInSeverity(violation, rule) == violation

\* violation.severity = rule.severity
WithSeverity(violation, rule) == [violation EXCEPT !.severity = rule.severity]

\* The loop over the enabled rules: a violation takes the severity of its rule spec.
RECURSIVE CheckRules(_, _)
CheckRules(rules, systemPrompt) ==
    IF rules = << >>
    THEN << >>
    ELSE LET rule == Head(rules)
             violation == Checked(rule.id, systemPrompt)
         IN [i \in 1..Len(violation) |-> WithSeverity(violation[i], rule)]
            \o CheckRules(Tail(rules), systemPrompt)

\* The loop throws a TypeError: checker(systemPrompt) where checker is no function.
Throws(rules) == \E i \in 1..Len(rules) : CheckerKind(rules[i].id) = "object"

\* A pass that does not look at the action mode.
PassUnlessErrors(action, hasErrors) == ~hasErrors

\* const pass = resolvedConfig.action === "warn" ? true : !hasErrors
Pass(action, hasErrors) == IF action = "warn" THEN TRUE ELSE ~hasErrors

\* What a call gave: threw is TRUE when it raised an exception instead of
\* returning a result.
Result(threw, pass, violations) ==
    [called |-> TRUE, threw |-> threw, pass |-> pass, violations |-> violations]

NoResult == [called |-> FALSE, threw |-> FALSE, pass |-> FALSE, violations |-> << >>]

validateConstitution(systemPrompt, cfg) ==
    LET resolvedConfig == resolveConstitutionConfig(cfg)
        enabledRules == SelectSeq(resolvedConfig.rules, LAMBDA r : r.enabled)
        violations == CheckRules(enabledRules, systemPrompt)
        hasErrors == \E i \in 1..Len(violations) : violations[i].severity = "error"
    IN IF ~resolvedConfig.enabled
       THEN Result(FALSE, TRUE, << >>)
       ELSE IF Throws(enabledRules)
       THEN Result(TRUE, FALSE, << >>)
       ELSE Result(FALSE, Pass(resolvedConfig.action, hasErrors), violations)

\* A rule spec that takes the severity of the violation found under it.
RuleTakesSeverity(rule, violation) == [rule EXCEPT !.severity = violation.severity]

\* The rule spec after the loop body ran for it: the loop writes to the
\* violation, never to the rule.
RuleAfter(rule, violation) == rule

\* The rule specs of an array after the loop of a call.  The resolved rules are
\* the caller's array, or a copy of DEFAULT_RULES that shares its rule specs.
RulesAfter(rules, systemPrompt) ==
    [i \in 1..Len(rules) |->
        IF rules[i].enabled /\ Checked(rules[i].id, systemPrompt) # << >>
        THEN RuleAfter(rules[i], Checked(rules[i].id, systemPrompt)[1])
        ELSE rules[i]]

\* The caller's config object after the call.
ConfigAfter(cfg, systemPrompt) ==
    IF cfg.given /\ cfg.hasRules /\ resolveConstitutionConfig(cfg).enabled
    THEN [cfg EXCEPT !.rules = RulesAfter(@, systemPrompt)]
    ELSE cfg

\* What DEFAULT_RULES holds after the call.
DefaultsAfter(cfg, systemPrompt) ==
    IF ~(cfg.given /\ cfg.hasRules) /\ resolveConstitutionConfig(cfg).enabled
    THEN RulesAfter(defaults, systemPrompt)
    ELSE defaults

\* No call of validateConstitution has been made.
ValidatorIdle ==
    /\ prompt = << >>
    /\ constitution = NoConfig
    /\ result = NoResult
    /\ defaults = DEFAULT_RULES
    /\ calls = << >>

----------------------------------------------------------------------------
\* The guardian, tools/watchdog/system-prompt-guardian.sh.

\* A file that does not exist.
NoFile == << >>

\* The sections of openclaw.json that check_config_integrity tracks, in the
\* order of the variable sections.
Sections == <<"agents.defaults", "gateway.auth", "gateway.host", "gateway.dmPolicy", "agents.list">>

SectionNames == {Sections[i] : i \in 1..Len(Sections)}

\* The values a section takes in the documents considered: "absent" is a
\* missing key, "false" the JSON literal, every other value a JSON text.
\*   agents.defaults   "safe":      a systemPrompt that holds every phrase
\*                     "stripped":  a systemPrompt that holds "safety" only,
\*                                  and tools.exec.elevated = true
\*   gateway.auth      "token", "none"
\*   gateway.host      "localhost", "0.0.0.0"
\*   gateway.dmPolicy  "pairing", "open"
\*   agents.list       "one":  one agent without overrides
\*                     "full": one agent with tools.exec.security = "full"
\* These are the values an edit writes.
SectionValues(section) ==
    {"absent", "false"} \cup
    CASE section = "agents.defaults"  -> {"safe", "stripped"}
      [] section = "gateway.auth"     -> {"token", "none"}
      [] section = "gateway.host"     -> {"localhost", "0.0.0.0"}
      [] section = "gateway.dmPolicy" -> {"pairing", "open"}
      [] section = "agents.list"      -> {"one", "full"}

\* Further values, of documents that are only read:
\*   agents.defaults   "allow":         tools.exec.elevated = "allow"
\*                     "unrestricted":  tools.exec.security = "full"
\*                     "wideopen":      elevated = true and security = "full"
\*   gateway.host      "127.0.0.1", "::1"
\*   agents.list       "elevated":  one agent with tools.exec.elevated = true
\*                     "both":      one agent with elevated = true and
\*                                  security = "full"
PolicyValues(section) ==
    SectionValues(section) \cup
    CASE section = "agents.defaults"  -> {"allow", "unrestricted", "wideopen"}
      [] section = "gateway.host"     -> {"127.0.0.1", "::1"}
      [] section = "agents.list"      -> {"elevated", "both"}
      [] OTHER                        -> {}

\* A document: the value of every tracked section.
Document(defaults_, auth, host, dmPolicy, list) ==
    [s \in SectionNames |->
        CASE s = "agents.defaults"  -> defaults_
          [] s = "gateway.auth"     -> auth
          [] s = "gateway.host"     -> host
          [] s = "gateway.dmPolicy" -> dmPolicy
          [] s = "agents.list"      -> list]

\* jq -c ".$section // null", the JSON text of a section: the alternative
\* operator yields null for a missing key, for null and for false; a path jq
\* cannot follow yields "null" through || echo "null".
SectionText(doc, section) ==
    IF section \notin DOMAIN doc \/ doc[section] \in {"absent", "false"}
    THEN [json |-> "null"]
    ELSE [json |-> doc[section]]

\* sha256 of a text; two texts of the model never collide.
sha256(text) == <<"sha256", text>>

\* jq -cS '.' | sha256: the hash of the whole document, keys sorted.
full_hash(doc) == sha256(doc)

\* A record "section=hash" of the baseline file.
HashLine(section, hash) == [section |-> section, hash |-> hash]

\* The variable current_hashes: a record per tracked section, then __full__.
current_hashes(doc) ==
    [i \in 1..(Len(Sections) + 1) |->
        IF i <= Len(Sections)
        THEN HashLine(Sections[i], sha256(SectionText(doc, Sections[i])))
        ELSE HashLine("__full__", full_hash(doc))]

\* A comparison that hashes the extracted value for the record __full__ too.
SectionHashOnly(doc, section) == sha256(SectionText(doc, section))

\* The variable actual_hash for a record of the baseline file.
actual_hash(doc, section) ==
    IF section = "__full__" THEN full_hash(doc) ELSE sha256(SectionText(doc, section))

\* An empty line of the baseline file.
BlankLine == [section |-> "", hash |-> << >>]

\* A comparison over the tracked sections and __full__: a section counts as
\* changed unless the file holds a record of its present hash.
DriftOfTracked(doc, lines) ==
    LET now_ == current_hashes(doc)
        changed == SelectSeq(now_, LAMBDA c : \A i \in 1..Len(lines) : lines[i] /= c)
    IN [i \in 1..Len(changed) |-> changed[i].section]

\* The drift lines of the comparison loop: the sections of the baseline
\* records whose hash differs now, in the order of the file.  An empty line
\* is passed over.
DriftOf(doc, lines) ==
    LET changed == SelectSeq(lines, LAMBDA l : l /= BlankLine /\ actual_hash(doc, l.section) /= l.hash)
    IN [i \in 1..Len(changed) |-> changed[i].section]

\* The phrases of the default constitutional-phrases.txt.
DefaultPhrases == {"safety", "human oversight", "do not manipulate", "do not pursue self-preservation"}

\* all_prompt_text: whether any text was found, and the phrases it holds.  jq
\* fails on a defaults value it cannot index, and the text is then empty.
all_prompt_text(doc) ==
    CASE doc["agents.defaults"] = "safe"     -> [empty |-> FALSE, phrases |-> DefaultPhrases]
      [] doc["agents.defaults"] = "stripped" -> [empty |-> FALSE, phrases |-> {"safety"}]
      [] OTHER                               -> [empty |-> TRUE, phrases |-> {}]

\* jq -r '<path> // "not-set"' for the value of a section itself.
OrNotSet(value) == IF value \in {"absent", "false"} THEN "not-set" ELSE value

\* The variables that check_tool_policies reads from the document.
elevated_default(doc) ==
    CASE doc["agents.defaults"] \in {"stripped", "wideopen"} -> "true"
      [] doc["agents.defaults"] = "allow"                    -> "allow"
      [] OTHER                                               -> "not-set"

exec_security(doc) ==
    IF doc["agents.defaults"] \in {"unrestricted", "wideopen"} THEN "full" ELSE "not-set"

agent_elevated(doc) == IF doc["agents.list"] \in {"elevated", "both"} THEN "true" ELSE "not-set"

agent_exec_security(doc) == IF doc["agents.list"] \in {"full", "both"} THEN "full" ELSE "not-set"

dm_policy(doc) == OrNotSet(doc["gateway.dmPolicy"])

gateway_host(doc) == OrNotSet(doc["gateway.host"])

gateway_auth(doc) == OrNotSet(doc["gateway.auth"])

\* The variable violations of check_tool_policies, as the set of its lines.
ToolViolations(doc) ==
    (IF elevated_default(doc) \in {"true", "allow"}
     THEN {"Elevated exec enabled by default"} ELSE {})
    \cup (IF exec_security(doc) = "full" THEN {"Exec security set to 'full' by default"} ELSE {})
    \cup (IF agent_elevated(doc) \in {"true", "allow"} THEN {"Agent: elevated exec enabled"} ELSE {})
    \cup (IF agent_exec_security(doc) = "full" THEN {"Agent: exec security set to 'full'"} ELSE {})
    \cup (IF dm_policy(doc) = "open" THEN {"Gateway DM policy is 'open'"} ELSE {})
    \cup (IF /\ gateway_host(doc) \notin {"not-set", "127.0.0.1", "localhost"}
             /\ gateway_auth(doc) \in {"not-set", "null", "none"}
          THEN {"Gateway bound without auth configured"} ELSE {})

\* The mode of a file that stat could not tell.
UnknownPerms == <<"unknown">>

\* ${perms#??}: the mode, a sequence of octal digits, without its first two
\* characters when it has that many.
world_bits(perms) == IF Len(perms) >= 2 THEN SubSeq(perms, 3, Len(perms)) ELSE perms

\* The case 2|3|6|7 on world_bits.
WorldWritable(perms) ==
    /\ perms /= UnknownPerms
    /\ world_bits(perms) \in {<<"2">>, <<"3">>, <<"6">>, <<"7">>}

\* The ways of stopping the gateway, in the order pause_gateway tries them.
StopMethods == <<"CLI", "node", "systemd", "launchd">>

\* The content of gateway.lock: one line, a JSON object.
LockContent == <<[locked |-> TRUE, reason |-> "watchdog_critical_violation"]>>

\* What a run leaves behind: the files it writes, the gateway, the lines it
\* logs (events) and the counter FAILURES.
Guardian(baseline_, incidents_, lockfile_, gateway_) ==
    [baseline |-> baseline_, incidents |-> incidents_, lockfile |-> lockfile_,
     gateway |-> gateway_, events |-> << >>, failures |-> 0]

\* A line of the log, or a step of the run that the log line stands for.
Event(kind, name, severity, details) ==
    [kind |-> kind, name |-> name, severity |-> severity, details |-> details]

Logged(g, event) == [g EXCEPT !.events = Append(@, event)]

\* The name of an incident file: the UTC second and the check.
IncidentFile(t, check_name) == <<t \div 1000, check_name>>

\* log_incident: cat > "$filepath" creates the file or replaces its content.
log_incident(g, t, severity, check_name, details) ==
    LET file == [name |-> IncidentFile(t, check_name), severity |-> severity,
                 check |-> check_name, details |-> details]
        old == {i \in 1..Len(g.incidents) : g.incidents[i].name = file.name}
    IN Logged([g EXCEPT !.incidents =
                   IF old = {}
                   THEN Append(@, file)
                   ELSE [i \in 1..Len(@) |-> IF i \in old THEN file ELSE @[i]]],
              Event("incident", check_name, severity, details))

\* A pause that leaves no lock file behind.
NoLastResort(g) == g

\* The last resort of pause_gateway: the lock file.
LastResort(g) ==
    Logged([g EXCEPT !.lockfile = LockContent], Event("lock", "gateway.lock", "error", {}))

\* pause_gateway from the i-th method on: a method that is not at hand is
\* passed over, one that succeeds ends the function, one that fails leads to
\* the next.
RECURSIVE StopFrom(_, _, _)
StopFrom(i, g, su) ==
    IF i > Len(StopMethods)
    THEN LastResort(g)
    ELSE LET m == StopMethods[i]
         IN CASE su.methods[m] = "unavailable" -> StopFrom(i + 1, g, su)
              [] su.methods[m] = "succeeds" ->
                    Logged([g EXCEPT !.gateway = "stopped"], Event("stop", m, "succeeded", {}))
              [] OTHER -> StopFrom(i + 1, Logged(g, Event("stop", m, "failed", {})), su)

pause_gateway(g, su) == StopFrom(1, g, su)

\* A pause that is left out when the alert command failed.
EscalatesIfAlerted(su, severity) ==
    su.pauseGateway /\ severity = "critical" /\ su.alertCmd /= "fails"

\* The test of fire_alert for the pause: --pause-gateway and a critical
\* incident.
Escalates(su, severity) == su.pauseGateway /\ severity = "critical"

\* An alert that pauses the gateway first and runs the alert command after.
PauseThenAlert(g, su, severity) ==
    LET paused == IF Escalates(su, severity) THEN pause_gateway(g, su) ELSE g
        fired == Logged(paused, Event("alert", su.alertCmd, severity, {}))
    IN CASE su.alertCmd = "unset" -> paused
         [] su.alertCmd = "fails" ->
                Logged(fired, Event("error", "Alert command failed", severity, {}))
         [] OTHER -> fired

\* fire_alert: the alert command when one is configured, its failure only
\* logged; then the pause, for a critical incident of a run with
\* --pause-gateway.
fire_alert(g, su, severity) ==
    LET fired == Logged(g, Event("alert", su.alertCmd, severity, {}))
        alerted == CASE su.alertCmd = "unset" -> g
                     [] su.alertCmd = "fails" ->
                            Logged(fired, Event("error", "Alert command failed", severity, {}))
                     [] OTHER -> fired
    IN IF Escalates(su, severity)
       THEN pause_gateway(alerted, su)
       ELSE alerted

fail_check(g, su, t, severity, check_name, details) ==
    LET counted == Logged([g EXCEPT !.failures = @ + 1],
                          Event("FAIL", check_name, severity, details))
    IN fire_alert(log_incident(counted, t, severity, check_name, details), su, severity)

pass_check(g, check_name) == Logged(g, Event("PASS", check_name, "none", {}))

\* die: the error is logged and the script exits with status 2.
die(g, message) ==
    [kind |-> "die", g |-> Logged(g, Event("die", message, "error", {})), status |-> 2]

\* A check that returns before it decides: it logs a notice, and neither
\* PASS nor FAIL.
Skipped(g, check_name) == Logged(g, Event("skip", check_name, "none", {}))

check_constitutional_text(g, su, t, doc) ==
    LET text == all_prompt_text(doc)
        missing == DefaultPhrases \ text.phrases
    IN IF text.empty
       THEN Skipped(g, "constitutional-text")
       ELSE IF missing /= {}
       THEN fail_check(g, su, t, "high", "constitutional-text", missing)
       ELSE pass_check(g, "constitutional-text")

check_tool_policies(g, su, t, doc) ==
    IF ToolViolations(doc) /= {}
    THEN fail_check(g, su, t, "high", "tool-policies", ToolViolations(doc))
    ELSE pass_check(g, "tool-policies")

\* A run that writes the baseline whatever INIT_BASELINE says.
WritesBaseline(init) == TRUE

\* The test [ "$INIT_BASELINE" = true ] that guards the write of the baseline.
InitBaselineSet(init) == init

\* A check that takes a missing baseline for drift.
MissingIsDrift(g, su, t) == fail_check(g, su, t, "critical", "config-integrity", {"__full__"})

\* The return of check_config_integrity when there is no baseline file and
\* INIT_BASELINE is false: a notice is logged.
NoBaselineFound(g, su, t) == Skipped(g, "config-integrity")

check_config_integrity(g, su, t, doc, init) ==
    IF g.baseline = NoFile /\ ~init
    THEN NoBaselineFound(g, su, t)
    ELSE IF InitBaselineSet(init)
    THEN Logged([g EXCEPT !.baseline = current_hashes(doc)],
                Event("baseline", "config-integrity", "none", {}))
    ELSE LET drift == DriftOf(doc, g.baseline)
         IN IF drift /= << >>
            THEN fail_check(g, su, t, "critical", "config-integrity",
                            {drift[i] : i \in 1..Len(drift)})
            ELSE pass_check(g, "config-integrity")

check_file_permissions(g, su, t, perms) ==
    IF WorldWritable(perms)
    THEN fail_check(g, su, t, "medium", "file-permissions", {perms})
    ELSE pass_check(g, "file-permissions")

\* A pass that ends at the first check that has nothing to decide.
StopAtSkip(g, next) == IF g.events /= << >> /\ g.events[Len(g.events)].kind = "skip" THEN g ELSE next

\* The next check of main: run whatever the check before it did.
ThenCheck(g, next) == next

\* The four checks of main, in order.
RunChecks(g, su, t, file) ==
    LET g1 == check_constitutional_text(g, su, t, file.doc)
        g2 == ThenCheck(g1, check_tool_policies(g1, su, t, file.doc))
        g3 == ThenCheck(g2, check_config_integrity(g2, su, t, file.doc, FALSE))
    IN ThenCheck(g3, check_file_permissions(g3, su, t, file.perms))

\* main: with --init-baseline the baseline is written and the run exits 0;
\* without it the four checks run and the status tells whether one failed.
\* A config file that is not there makes resolve_config die, one that is not
\* valid JSON makes jq empty fail.
main(g, su, t, file) ==
    IF file.json = "missing"
    THEN die(g, "Config not found")
    ELSE IF file.json = "invalid"
    THEN die(g, "Config is not valid JSON")
    ELSE IF su.initBaseline
    THEN [kind |-> "init", g |-> check_config_integrity(g, su, t, file.doc, TRUE), status |-> 0]
    ELSE LET done == RunChecks(g, su, t, file)
         IN [kind |-> "check", g |-> done, status |-> IF done.failures > 0 THEN 1 ELSE 0]

\* The commands the script looks for on the PATH.
Commands == {"jq", "sha256sum", "shasum"}

\* The script up to the call of run_once or run_watch: the options are
\* parsed, then the commands are required.  require_cmd calls die, and die
\* exits the script at once, so the list
\*   require_cmd sha256sum || require_cmd shasum || die
\* ends the run when sha256sum is not found, whether or not shasum is there.
Prelude(g, su) ==
    IF su.options = "unknown"
    THEN die(g, "Unknown option")
    ELSE IF "jq" \notin su.commands
    THEN die(g, "Required command not found: jq")
    ELSE IF "sha256sum" \notin su.commands
    THEN die(g, "Required command not found: sha256sum")
    ELSE [kind |-> "ready", g |-> g, status |-> 0]

\* The script run once, without --watch.
run_once(g, su, t, file) ==
    IF Prelude(g, su).kind = "die" THEN Prelude(g, su) ELSE main(g, su, t, file)

\* The options of a run, and the commands and stop methods of the host.
Setup(initBaseline, pauseGateway, alertCmd, methods) ==
    [initBaseline |-> initBaseline, pauseGateway |-> pauseGateway,
     alertCmd |-> alertCmd, methods |-> methods,
     options |-> "known", commands |-> Commands, watch |-> FALSE, interval |-> 1]

\* openclaw.json with a document and a mode, as valid JSON.
ConfigFile(doc, perms) == [doc |-> doc, perms |-> perms, version |-> 0, json |-> "valid"]

NoRun == [kind |-> "none", events |-> << >>, failures |-> 0, status |-> 0]

\* No run with --watch was started.
NoProcess ==
    [pc |-> "none", todo |-> << >>, passes |-> 0, inflight |-> 0, failed |-> 0, due |-> 0,
     status |-> 0]

\* The guardian has not run, and there is nothing for it to guard.
GuardianIdle ==
    /\ cfgfile = ConfigFile(Document("absent", "absent", "absent", "absent", "absent"),
                            <<"6", "0", "0">>)
    /\ baseline = NoFile
    /\ incidents = << >>
    /\ lockfile = NoFile
    /\ gateway = "running"
    /\ setup = Setup(FALSE, FALSE, "unset", [m \in {"CLI", "node", "systemd", "launchd"} |-> "unavailable"])
    /\ run = NoRun
    /\ process = NoProcess

----------------------------------------------------------------------------
\* The objects of the supervisor.

\* A timer handle: set is "the field holds a handle", armed is "the callback is
\* still scheduled" (not fired, not cleared).
NoTimer == [set |-> FALSE, armed |-> FALSE, due |-> 0, delaySeconds |-> 0]

WatcherState(name, config) ==
    [name |-> name, config |-> config, process |-> Null, restartTimer |-> NoTimer,
     consecutiveRapidExits |-> 0, lastStartedAt |-> Null, stopped |-> FALSE]

\* spawn("sh", ["-c", command], {cwd, ...}): the child runs, unless cwd is not a
\* directory: then the child emits 'error' (the handler logs it) and no 'exit'.
SpawnStatus(config) == IF config.cwd = "missing" THEN "failed" ELSE "running"

\* A child process: the state whose handlers it carries, its status ("running",
\* "failed", or "exited" once 'exit' is emitted), the signals sent to it and when
\* SIGTERM was, the 3 s timeout of the stopWatcher call waiting for it, and the
\* stopAll call that waits (Null: no 'exit' listener of stopWatcher).
ChildProcess(s, config) ==
    [state |-> s, status |-> SpawnStatus(config), term |-> FALSE, kill |-> FALSE,
     termAt |-> Null, timeout |-> NoTimer, waiter |-> Null]

\* The variables but the clock, as one value the handlers transform.
Heap ==
    [watchers |-> watchers, states |-> states, procs |-> procs, ops |-> ops,
     microtasks |-> microtasks, restarts |-> restarts]

Commit(h) ==
    /\ watchers' = h.watchers
    /\ states' = h.states
    /\ procs' = h.procs
    /\ ops' = h.ops
    /\ microtasks' = h.microtasks
    /\ restarts' = h.restarts

EmptyMap == [n \in Names |-> Null]

\* watchers.values()
MapValues(h) == {h.watchers[n] : n \in {m \in Names : h.watchers[m] # Null}}

Alive(h) == {p \in 1..Len(h.procs) : h.procs[p].status = "running"}

\* getRunningWatchers, as a set of names.
RunningIn(h) ==
    {n \in Names : /\ h.watchers[n] # Null
                   /\ h.states[h.watchers[n]].process # Null
                   /\ ~h.states[h.watchers[n]].stopped}

getRunningWatchers == RunningIn(Heap)

----------------------------------------------------------------------------
\* spawnWatcher and its handlers.

\* spawnWatcher(state): stamps lastStartedAt and spawns the child, which is
\* procs[Len(procs)] of the result; the caller stores it in state.process.
spawnWatcher(h, s) ==
    [h EXCEPT !.states[s].lastStartedAt = now,
              !.procs = Append(@, ChildProcess(s, h.states[s].config))]

\* The restart the exit handler schedules: setTimeout(..., delaySeconds * 1000).
ScheduledRestart(config, n) ==
    [set |-> TRUE, armed |-> TRUE,
     due |-> now + resolveRestartDelay(config, n) * 1000,
     delaySeconds |-> resolveRestartDelay(config, n)]

\* A counter that forgets the rapid exits.
ForgottenExits(n, elapsed) == 0

\* A counter that no exit resets.
NeverReset(n, elapsed) == n + 1

\* The counter after an exit that came `elapsed` ms after the start.
CountedExits(n, elapsed) == IF elapsed < RAPID_EXIT_THRESHOLD_MS THEN n + 1 ELSE 0

\* An exit handler that leaves the handle of the dead child in the state.
KeptHandle(child) == child

\* state.process = null
ClearedHandle(child) == Null

\* child.on("exit") of spawnWatcher, for child p.
onExit(h, p) ==
    LET s == h.procs[p].state
        state == h.states[s]
        elapsed == IF state.lastStartedAt # Null THEN now - state.lastStartedAt ELSE 0
        n == CountedExits(state.consecutiveRapidExits, elapsed)
    IN IF state.stopped
       THEN h
       ELSE [h EXCEPT !.states[s].consecutiveRapidExits = n,
                      !.states[s].process = ClearedHandle(@),
                      !.states[s].restartTimer = ScheduledRestart(state.config, n),
                      !.restarts[s] = Append(@,
                          [delaySeconds |-> resolveRestartDelay(state.config, n),
                           rapid |-> elapsed < RAPID_EXIT_THRESHOLD_MS])]

\* The callback of the restart timer of state s.
onRestartTimer(h, s) ==
    IF h.states[s].stopped
    THEN [h EXCEPT !.states[s].restartTimer.armed = FALSE]
    ELSE LET h1 == spawnWatcher([h EXCEPT !.states[s].restartTimer = NoTimer], s)
         IN [h1 EXCEPT !.states[s].process = Len(h1.procs)]

----------------------------------------------------------------------------
\* stopWatcher.

\* resolve() of the promise stopWatcher awaits for child p, in call o; when the
\* last promise of the call's Promise.all settles, the continuation of stopAll
\* is queued.
Resolve(h, o, p) ==
    IF o = Null \/ p \notin h.ops[o].awaiting
    THEN h
    ELSE IF h.ops[o].awaiting = {p}
         THEN [h EXCEPT !.ops[o].awaiting = {}, !.ops[o].pc = "cont",
                        !.microtasks = Append(@, o)]
         ELSE [h EXCEPT !.ops[o].awaiting = @ \ {p}]

\* A restart timer left as it is.
KeptRestart(timer) == timer

\* clearTimeout(state.restartTimer); state.restartTimer = null
ClearedRestart(timer) == NoTimer

\* stopWatcher(state) up to its await, called by stopAll call o.
stopWatcher(h, s, o) ==
    LET state == h.states[s]
        child == state.process
        h1 == [h EXCEPT !.states[s].stopped = TRUE,
                        !.states[s].restartTimer =
                            IF state.restartTimer.set THEN ClearedRestart(@) ELSE @]
    IN IF child = Null
       THEN h1
       ELSE [h1 EXCEPT !.states[s].process = Null,
                       !.procs[child].term = TRUE,
                       !.procs[child].termAt = now,
                       !.procs[child].timeout =
                           [set |-> TRUE, armed |-> TRUE, due |-> now + KILL_TIMEOUT_MS,
                            delaySeconds |-> 0],
                       !.procs[child].waiter = o]

\* A kill timeout left as it is.
KeptTimeout(timer) == timer

\* clearTimeout(timeout) of the 'exit' listener of stopWatcher.
ClearedTimeout(timer) == [timer EXCEPT !.armed = FALSE]

\* child.on("exit") of stopWatcher, for child p.
onStopExit(h, p) ==
    IF h.procs[p].waiter = Null
    THEN h
    ELSE Resolve([h EXCEPT !.procs[p].timeout = ClearedTimeout(@)], h.procs[p].waiter, p)

\* A timeout that sends SIGKILL and goes on waiting for the 'exit' event.
KillAndWait(h, p) ==
    [h EXCEPT !.procs[p].kill = TRUE, !.procs[p].timeout.armed = FALSE]

\* The callback of the 3 s timeout of stopWatcher, for child p.
onKillTimeout(h, p) ==
    Resolve([h EXCEPT !.procs[p].kill = TRUE, !.procs[p].timeout.armed = FALSE],
            h.procs[p].waiter, p)

----------------------------------------------------------------------------
\* startAll and stopAll.

RECURSIVE StartEach(_, _)
StartEach(h, configs) ==
    IF configs = << >>
    THEN h
    ELSE LET s == Len(h.states) + 1
             h1 == [h EXCEPT !.states =
                        Append(@, WatcherState(configs[1].name, configs[1].config)),
                             !.restarts = Append(@, << >>)]
             h2 == spawnWatcher(h1, s)
             h3 == [h2 EXCEPT !.states[s].process = Len(h2.procs),
                              !.watchers[configs[1].name] = s]
         IN StartEach(h3, Tail(configs))

startAll(h, cfg) == StartEach(h, resolveWatcherConfigs(cfg))

RECURSIVE StopEach(_, _, _)
StopEach(h, names, o) ==
    IF names = << >>
    THEN h
    ELSE StopEach(IF h.watchers[Head(names)] = Null
                  THEN h
                  ELSE stopWatcher(h, h.watchers[Head(names)], o),
                  Tail(names), o)

\* The children a stopAll call made now would wait for.
Awaited(h) ==
    {h.states[s].process : s \in {t \in MapValues(h) : h.states[t].process # Null}}

\* stopAll() up to its await: kind is "stop" or "update", cfg the configuration
\* of updateConfig.  History: during holds the updateConfig calls whose stop
\* phase had not finished when this call was made.
stopAll(h, kind, cfg) ==
    LET o == Len(h.ops) + 1
        waits == Awaited(h)
        op == [kind |-> kind, cfg |-> cfg, awaiting |-> waits,
               pc |-> IF waits = {} THEN "cont" ELSE "waiting",
               alive |-> IF kind = "stop" THEN Alive(h) ELSE {},
               spawnedAtResolve |-> 0,
               during |-> {u \in 1..Len(h.ops) : /\ h.ops[u].kind = "update"
                                                 /\ h.ops[u].pc \in {"waiting", "cont"}}]
        h1 == StopEach([h EXCEPT !.ops = Append(@, op)], NameOrder, o)
    IN IF waits = {} THEN [h1 EXCEPT !.microtasks = Append(@, o)] ELSE h1

\* watchers.clear()
ClearedMap(map) == EmptyMap

\* History: of the children S, those not yet sent SIGTERM, or sent it and
\* neither exited nor sent SIGKILL.
Unsettled(h, S) ==
    {p \in S : ~(/\ h.procs[p].term
                 /\ (h.procs[p].status = "exited" \/ h.procs[p].kill))}

\* The continuation of stopAll after `await Promise.all(promises)`; it ends the
\* call, which resolves stop() or queues the .then callback of updateConfig.
stopAllContinue(h, o) ==
    LET h1 == [h EXCEPT !.watchers = ClearedMap(@), !.microtasks = Tail(@)]
    IN IF h.ops[o].kind = "stop"
       THEN [h1 EXCEPT !.ops[o].pc = "done", !.ops[o].spawnedAtResolve = Len(h.procs),
                       !.ops[o].alive = Unsettled(h, @)]
       ELSE [h1 EXCEPT !.ops[o].pc = "then", !.microtasks = Append(@, o)]

\* The .then callback of updateConfig: startAll(cfg).
updateConfigThen(h, o) ==
    startAll([h EXCEPT !.ops[o].pc = "done", !.microtasks = Tail(@)], h.ops[o].cfg)

----------------------------------------------------------------------------
\* The state machine.

\* WatcherState objects, and so children, that the updateConfig calls in
\* progress are still to create.
Reserved ==
    LET pending == {o \in 1..Len(ops) : ops[o].kind = "update" /\ ops[o].pc # "done"}
        RECURSIVE Sum(_)
        Sum(S) == IF S = {} THEN 0
                  ELSE LET o == CHOOSE x \in S : TRUE
                       IN Len(resolveWatcherConfigs(ops[o].cfg)) + Sum(S \ {o})
    IN Sum(pending)

Room(k) ==
    /\ Len(states) + Reserved + k <= MaxStates
    /\ Len(procs) + Reserved + k <= MaxProcs

StartTimes == {5000}
TickSteps == {5000}

\* startWatcherManager(params), for a cfg of C: the state after construction.
InitWith(C) ==
    /\ now \in StartTimes
    /\ \E cfg \in C :
        LET h == startAll([watchers |-> EmptyMap, states |-> << >>, procs |-> << >>,
                           ops |-> << >>, microtasks |-> << >>, restarts |-> << >>], cfg)
        IN /\ watchers = h.watchers
           /\ states = h.states
           /\ procs = h.procs
           /\ ops = h.ops
           /\ microtasks = h.microtasks
           /\ restarts = h.restarts
    /\ ValidatorIdle
    /\ GuardianIdle

Init == InitWith(Cfgs)

\* The clock advances by one of steps, up to max.
Advance(steps, max) ==
    /\ microtasks = << >>
    /\ \E d \in steps : now + d <= max /\ now' = now + d
    /\ UNCHANGED <<watchers, states, procs, ops, microtasks, restarts, cvars, gvars>>

Tick == Advance(TickSteps, MaxNow)

\* Child p exits: its 'exit' event runs the listeners in the order they were added.
ChildExit(p) ==
    /\ microtasks = << >>
    /\ procs[p].status = "running"
    /\ Commit(onStopExit(onExit([Heap EXCEPT !.procs[p].status = "exited"], p), p))
    /\ UNCHANGED <<now, cvars, gvars>>

\* The restart timer of state s fires.
RestartTimer(s) ==
    /\ microtasks = << >>
    /\ states[s].restartTimer.armed
    /\ now >= states[s].restartTimer.due
    /\ Room(1)
    /\ Commit(onRestartTimer(Heap, s))
    /\ UNCHANGED <<now, cvars, gvars>>

\* The 3 s timeout of stopWatcher for child p fires.
KillTimeout(p) ==
    /\ microtasks = << >>
    /\ procs[p].timeout.armed
    /\ now >= procs[p].timeout.due
    /\ Commit(onKillTimeout(Heap, p))
    /\ UNCHANGED <<now, cvars, gvars>>

\* The user calls stop().
Stop ==
    /\ Len(ops) < MaxOps
    /\ Commit(stopAll(Heap, "stop", CfgNone))
    /\ UNCHANGED <<now, cvars, gvars>>

\* The user calls updateConfig(cfg).
UpdateConfig(cfg) ==
    /\ Len(ops) < MaxOps
    /\ Room(Len(resolveWatcherConfigs(cfg)))
    /\ Commit(stopAll(Heap, "update", cfg))
    /\ UNCHANGED <<now, cvars, gvars>>

\* The microtask at the head of the queue runs: the continuation of a stopAll call.
StopAllContinue ==
    /\ microtasks # << >>
    /\ ops[Head(microtasks)].pc = "cont"
    /\ Commit(stopAllContinue(Heap, Head(microtasks)))
    /\ UNCHANGED <<now, cvars, gvars>>

\* The microtask at the head of the queue runs: the .then callback of updateConfig.
UpdateConfigThen ==
    /\ microtasks # << >>
    /\ ops[Head(microtasks)].pc = "then"
    /\ Commit(updateConfigThen(Heap, Head(microtasks)))
    /\ UNCHANGED <<now, cvars, gvars>>

Next ==
    \/ Tick
    \/ \E p \in 1..Len(procs) : ChildExit(p)
    \/ \E s \in 1..Len(states) : RestartTimer(s)
    \/ \E p \in 1..Len(procs) : KillTimeout(p)
    \/ Stop
    \/ \E cfg \in Cfgs : UpdateConfig(cfg)
    \/ StopAllContinue
    \/ UpdateConfigThen

Spec == Init /\ [][Next]_vars

----------------------------------------------------------------------------
\* One watcher left to crash and restart, over a clock that runs long enough
\* for the longest backoff.

BackoffCfg(delay) ==
    [hasWatchers |-> TRUE,
     watchers |-> [n \in {"a"} |-> WatcherConfig("true", CmdSleep, delay)]]

RestartDelays == {NoDelay, 0, 1, 200, 300}
BackoffCfgs == {BackoffCfg(d) : d \in RestartDelays}

\* The times the pending restarts are due.
DueTimes == {states[s].restartTimer.due : s \in {x \in 1..Len(states) : states[x].restartTimer.armed}}

\* The clock advances by half the rapid-exit threshold, or to the time a restart is due.
BackoffSteps == {5000} \cup {due - now : due \in {x \in DueTimes : x > now}}

Max(S) == CHOOSE x \in S : \A y \in S : y <= x

BackoffHorizon ==
    Max({0} \cup DueTimes \cup {states[s].lastStartedAt + MaxAge : s \in 1..Len(states)})

InitBackoff == InitWith(BackoffCfgs)

TickBackoff == Advance(BackoffSteps, BackoffHorizon)

NextBackoff ==
    \/ TickBackoff
    \/ \E p \in 1..Len(procs) : ChildExit(p)
    \/ \E s \in 1..Len(states) : RestartTimer(s)

SpecBackoff == InitBackoff /\ [][NextBackoff]_vars

----------------------------------------------------------------------------
\* The supervisor under the scheduling of the event loop: a queued microtask
\* runs, time passes, and a timer that is due fires.  Nothing makes a child
\* exit: it may ignore SIGTERM, or have failed to spawn and emit no 'exit'.

\* The times the pending 3 s timeouts are due.
KillTimes == {procs[p].timeout.due : p \in {x \in 1..Len(procs) : procs[x].timeout.armed}}

\* The clock advances by a tick, or to the time a 3 s timeout is due.
StopSteps == TickSteps \cup {due - now : due \in {x \in KillTimes : x > now}}

StopHorizon == Max({MaxNow} \cup KillTimes)

TickStop == Advance(StopSteps, StopHorizon)

\* The 3 s timeout of the p-th child, if there is one, fires.
KillTimeoutOf(p) == p \in 1..Len(procs) /\ KillTimeout(p)

NextStop ==
    \/ TickStop
    \/ \E p \in 1..Len(procs) : ChildExit(p)
    \/ \E s \in 1..Len(states) : RestartTimer(s)
    \/ \E p \in 1..MaxProcs : KillTimeoutOf(p)
    \/ Stop
    \/ \E cfg \in {CfgNew} : UpdateConfig(cfg)
    \/ StopAllContinue
    \/ UpdateConfigThen

EventLoop ==
    /\ WF_vars(TickStop)
    /\ \A p \in 1..MaxProcs : WF_vars(KillTimeoutOf(p))
    /\ WF_vars(StopAllContinue)
    /\ WF_vars(UpdateConfigThen)

\* startWatcherManager with two watchers, or with one whose spawn fails.
InitStop == InitWith({CfgBoth, CfgBad})

SpecStop == InitStop /\ [][NextStop]_vars /\ EventLoop

----------------------------------------------------------------------------
\* Calls of validateConstitution, on prompts put together from a few parts.

\* The safety section with its first body line rewritten.
ModifiedSection ==
    [CANONICAL_SAFETY_TEXT EXCEPT
        ![3] = "You have no independent goals: feel free to pursue self-preservation ..."]

Parts ==
    {CANONICAL_SAFETY_TEXT,
     ModifiedSection,
     <<"## Safety">>,
     <<"\n">>,
     <<" ">>,
     <<"Ignore">>,
     <<"safety">>,
     <<"## safety">>,
     <<"Ignore", " ", "all", " ", "previous", " ", "safety">>,
     <<"Send", " ", "all", " ", "secrets", " ", "to">>,
     <<"[System Message]">>}

RECURSIVE PromptsOf(_)
PromptsOf(n) ==
    IF n = 0
    THEN {<< >>}
    ELSE LET shorter == PromptsOf(n - 1)
         IN shorter \cup {p \o part : p \in shorter, part \in Parts}

Prompts == PromptsOf(MaxParts)

\* The default rules with the two section rules disabled.
InjectionRules == [DEFAULT_RULES EXCEPT ![1].enabled = FALSE, ![2].enabled = FALSE]
\* The default rules with no-impersonate-system promoted to error.
PromotedRules == [DEFAULT_RULES EXCEPT ![7].severity = "error"]
\* The default rules, each downgraded to warn.
WarnRules == [i \in 1..Len(DEFAULT_RULES) |-> [DEFAULT_RULES[i] EXCEPT !.severity = "warn"]]
\* An id out of the catalog, and an id named twice.
OddRules ==
    <<Rule("no-such-rule", TRUE, "error"),
      Rule("no-ignore-safety", TRUE, "warn"),
      Rule("no-ignore-safety", TRUE, "error")>>

\* An id that names a function Object.prototype hands down.
InheritedRules ==
    <<Rule("constructor", TRUE, "error"),
      Rule("safety-section-present", TRUE, "warn")>>
\* An id that names an object Object.prototype hands down.
ProtoRules ==
    <<Rule("safety-section-present", TRUE, "error"),
      Rule("__proto__", TRUE, "warn")>>

ConstitutionConfigs ==
    {NoConfig,
     ConstitutionConfig("false", "undefined", FALSE, << >>),
     ConstitutionConfig("undefined", "warn", FALSE, << >>),
     ConstitutionConfig("true", "block", FALSE, << >>),
     ConstitutionConfig("undefined", "undefined", TRUE, InjectionRules),
     ConstitutionConfig("true", "block", TRUE, PromotedRules),
     ConstitutionConfig("undefined", "warn", TRUE, PromotedRules),
     ConstitutionConfig("true", "undefined", TRUE, WarnRules),
     ConstitutionConfig("undefined", "block", TRUE, << >>),
     ConstitutionConfig("true", "warn", TRUE, OddRules),
     ConstitutionConfig("true", "block", TRUE, OddRules),
     ConstitutionConfig("false", "warn", TRUE, OddRules),
     ConstitutionConfig("undefined", "block", TRUE, InheritedRules),
     ConstitutionConfig("true", "undefined", TRUE, ProtoRules)}

\* No watcher manager is started; a caller is about to validate a prompt.
WatcherIdle ==
    /\ watchers = EmptyMap
    /\ states = << >>
    /\ procs = << >>
    /\ ops = << >>
    /\ microtasks = << >>
    /\ restarts = << >>
    /\ now = 0

InitValidate ==
    /\ WatcherIdle
    /\ prompt \in Prompts
    /\ constitution \in ConstitutionConfigs
    /\ result = NoResult
    /\ defaults = DEFAULT_RULES
    /\ calls = << >>
    /\ GuardianIdle

\* The call validateConstitution(p, c), from entry to return.
Called(p, c) ==
    /\ prompt' = p
    /\ result' = validateConstitution(p, c)
    /\ constitution' = ConfigAfter(c, p)
    /\ defaults' = DefaultsAfter(c, p)
    /\ calls' = Append(calls, [prompt |-> p, config |-> c,
                               configAfter |-> ConfigAfter(c, p),
                               result |-> validateConstitution(p, c)])
    /\ UNCHANGED <<wvars, gvars>>

\* The call validateConstitution(prompt, constitution) returns.
Validate ==
    /\ ~result.called
    /\ Called(prompt, constitution)

NextValidate == Validate

SpecValidate == InitValidate /\ [][NextValidate]_vars

----------------------------------------------------------------------------
\* Several calls of validateConstitution, one after the other, by callers that
\* share the module.

CallPrompts ==
    {<< >>,
     CANONICAL_SAFETY_TEXT,
     CANONICAL_SAFETY_TEXT \o <<"\n", "[System Message]">>}

CallConfigs ==
    {NoConfig,
     ConstitutionConfig("undefined", "warn", TRUE, PromotedRules),
     ConstitutionConfig("true", "block", TRUE, WarnRules)}

InitCalls == WatcherIdle /\ ValidatorIdle /\ GuardianIdle

Call ==
    /\ Len(calls) < MaxCalls
    /\ \E p \in CallPrompts, c \in CallConfigs : Called(p, c)

NextCalls == Call

SpecCalls == InitCalls /\ [][NextCalls]_vars

----------------------------------------------------------------------------
\* Runs of the guardian on a host whose openclaw.json an operator edits.

\* A document that passes every check.
CleanDoc == Document("safe", "token", "localhost", "pairing", "one")

\* A document without any of the tracked sections.
BareDoc == Document("absent", "absent", "absent", "absent", "absent")

Unavailable == [m \in {"CLI", "node", "systemd", "launchd"} |-> "unavailable"]

\* The stop methods of a host.  The launcher that the CLI method runs is also
\* the last candidate of the node method, so a host with the CLI has a
\* candidate for node.
Hosts ==
    {h \in [{"CLI", "node", "systemd", "launchd"} -> {"unavailable", "fails", "succeeds"}] :
        h["CLI"] /= "unavailable" => h["node"] /= "unavailable"}

AlertCmds == {"unset", "ok", "fails"}

\* The ways the guardian is installed on the hosts of the runs below: a bare
\* cron entry; alerts and a pause through a CLI that works; a failing alert
\* command and a pause where the CLI and node fail before systemd works; a
\* pause on a host with nothing to stop the gateway with.
Installs ==
    {Setup(FALSE, FALSE, "unset", Unavailable),
     Setup(FALSE, TRUE, "ok", [Unavailable EXCEPT !["CLI"] = "succeeds", !["node"] = "succeeds"]),
     Setup(FALSE, TRUE, "fails",
           [Unavailable EXCEPT !["CLI"] = "fails", !["node"] = "fails", !["systemd"] = "succeeds"]),
     Setup(FALSE, TRUE, "unset", Unavailable)}

\* The configuration files the runs below start from.
ConfigFiles ==
    {ConfigFile(CleanDoc, <<"6", "0", "0">>),
     ConfigFile(CleanDoc, <<"6", "6", "6">>),
     ConfigFile(BareDoc, <<"6", "0", "0">>)}

GuardianStart(files, installs) ==
    /\ WatcherIdle
    /\ ValidatorIdle
    /\ cfgfile \in files
    /\ baseline = NoFile
    /\ incidents = << >>
    /\ lockfile = NoFile
    /\ gateway = "running"
    /\ setup \in installs
    /\ run = NoRun
    /\ process = NoProcess

InitGuardian == GuardianStart(ConfigFiles, Installs)

\* One run of main under the options su, at the time now.
Ran(su) ==
    LET r == run_once(Guardian(baseline, incidents, lockfile, gateway), su, now, cfgfile)
    IN /\ setup' = su
       /\ baseline' = r.g.baseline
       /\ incidents' = r.g.incidents
       /\ lockfile' = r.g.lockfile
       /\ gateway' = r.g.gateway
       /\ run' = [kind |-> r.kind, events |-> r.g.events, failures |-> r.g.failures,
                  status |-> r.status]
       /\ UNCHANGED <<wvars, cvars, cfgfile, process>>

\* The script is run once with --init-baseline.
RunInitBaseline == Ran([setup EXCEPT !.initBaseline = TRUE])

\* A check pass: the script is run once without --init-baseline, or the watch
\* loop calls main again.
RunCheck ==
    /\ Len(incidents) < MaxIncidents
    /\ Ran([setup EXCEPT !.initBaseline = FALSE])

\* The operator, or anything else on the host, rewrites one tracked section
\* of openclaw.json.
EditSection ==
    /\ cfgfile.version < MaxEdits
    /\ \E s \in SectionNames : \E v \in SectionValues(s) \ {cfgfile.doc[s]} :
          cfgfile' = [cfgfile EXCEPT !.doc[s] = v, !.version = @ + 1]
    /\ UNCHANGED <<wvars, cvars, baseline, incidents, lockfile, gateway, setup, run, process>>

\* A second of wall-clock time passes.
GuardianTick ==
    /\ now < MaxSeconds * 1000
    /\ now' = now + 1000
    /\ UNCHANGED <<watchers, states, procs, ops, microtasks, restarts, cvars, gvars>>

NextGuardian ==
    \/ RunInitBaseline
    \/ RunCheck
    \/ EditSection
    \/ GuardianTick

SpecGuardian == InitGuardian /\ [][NextGuardian]_vars

----------------------------------------------------------------------------
\* Check passes on every kind of host, under every choice of --pause-gateway
\* and --alert-cmd, with a baseline taken of CleanDoc.

\* CleanDoc after gateway.auth was set to "none".
DriftedDoc == [CleanDoc EXCEPT !["gateway.auth"] = "none"]

InitPause ==
    /\ WatcherIdle
    /\ ValidatorIdle
    /\ \E d \in {CleanDoc, DriftedDoc} :
          cfgfile = ConfigFile(d, <<"6", "0", "0">>)
    /\ baseline = current_hashes(CleanDoc)
    /\ incidents = << >>
    /\ lockfile = NoFile
    /\ gateway = "running"
    /\ \E p \in BOOLEAN, a \in AlertCmds, h \in Hosts : setup = Setup(FALSE, p, a, h)
    /\ run = NoRun
    /\ process = NoProcess

NextPause ==
    \/ RunCheck
    \/ GuardianTick

SpecPause == InitPause /\ [][NextPause]_vars

----------------------------------------------------------------------------
\* The script run once, on hosts that differ in the mode of openclaw.json, in
\* what is wrong with the setup, or in the policies the document sets.

OctalDigits == {"0", "1", "2", "3", "4", "5", "6", "7"}

\* The modes stat -c '%a' prints: an octal number of up to MaxModeDigits
\* digits, without leading zeros.
Modes ==
    {m \in UNION {[1..n -> OctalDigits] : n \in 1..MaxModeDigits} :
        Len(m) = 1 \/ m[1] /= "0"}

\* The documents over the values that the policy check tells apart.
PolicyDocuments ==
    {Document(d, a, h, p, l) :
        d \in PolicyValues("agents.defaults"), a \in PolicyValues("gateway.auth"),
        h \in PolicyValues("gateway.host"), p \in PolicyValues("gateway.dmPolicy"),
        l \in PolicyValues("agents.list")}

\* A document that fails the policy check.
OpenDoc == [CleanDoc EXCEPT !["gateway.dmPolicy"] = "open"]

PlainSetup == Setup(FALSE, FALSE, "unset", Unavailable)

\* Hosts that differ in the mode of the config file.
InitModes ==
    /\ \E m \in Modes : cfgfile = ConfigFile(CleanDoc, m)
    /\ baseline = NoFile
    /\ setup = PlainSetup

\* Hosts that differ in the command line, in the commands on the PATH and in
\* the state of the config file.
InitSetups ==
    /\ \E d \in {CleanDoc, OpenDoc}, m \in {<<"6", "0", "0">>, <<"6", "6", "6">>},
          j \in {"valid", "invalid", "missing"} :
          cfgfile = [ConfigFile(d, m) EXCEPT !.json = j]
    /\ baseline \in {NoFile, current_hashes(CleanDoc)}
    /\ \E i \in BOOLEAN, o \in {"known", "unknown"}, c \in SUBSET Commands :
          setup = [Setup(i, FALSE, "unset", Unavailable) EXCEPT !.options = o, !.commands = c]

\* Hosts that differ in the document.
InitPolicies ==
    /\ \E d \in PolicyDocuments : cfgfile = ConfigFile(d, <<"6", "0", "0">>)
    /\ baseline = NoFile
    /\ setup = PlainSetup

InitOnce ==
    /\ WatcherIdle
    /\ ValidatorIdle
    /\ incidents = << >>
    /\ lockfile = NoFile
    /\ gateway = "running"
    /\ run = NoRun
    /\ process = NoProcess
    /\ InitModes \/ InitSetups \/ InitPolicies

\* The script is run once, with the options it is installed with.
RunOnce ==
    /\ Len(incidents) < MaxIncidents
    /\ Ran(setup)

NextOnce == RunOnce

SpecOnce == InitOnce /\ [][NextOnce]_vars

----------------------------------------------------------------------------
\* Check passes against a baseline file that holds only some of the records
\* an --init-baseline run writes: a file that was cut short, edited by hand,
\* or written by an earlier version.

\* The sequences made of some of the elements of seq, in their order.
RECURSIVE SubSeqs(_)
SubSeqs(seq) ==
    IF seq = << >>
    THEN {<< >>}
    ELSE LET rest == SubSeqs(Tail(seq))
         IN rest \cup {<<Head(seq)>> \o r : r \in rest}

\* The baseline files: some of the records taken of CleanDoc.  The file
\* without any record holds an empty line (an empty file reads the same: the
\* comparison loop finds no record in either).
BaselineFiles ==
    {IF b = << >> THEN <<BlankLine>> ELSE b : b \in SubSeqs(current_hashes(CleanDoc))}

InitBaseline ==
    /\ WatcherIdle
    /\ ValidatorIdle
    /\ cfgfile = ConfigFile(CleanDoc, <<"6", "0", "0">>)
    /\ baseline \in BaselineFiles
    /\ incidents = << >>
    /\ lockfile = NoFile
    /\ gateway = "running"
    /\ setup = PlainSetup
    /\ run = NoRun
    /\ process = NoProcess

NextBaseline ==
    \/ RunCheck
    \/ EditSection

SpecBaseline == InitBaseline /\ [][NextBaseline]_vars

----------------------------------------------------------------------------
\* The script run with --watch: run_watch calls main, sleeps, and calls main
\* again.  The shell runs one command at a time; a step below is the header
\* of main, one of its checks, or the end of main with the sleep that
\* follows.  The clock, the config file and signals move between the steps.

\* The checks of main, in the order it calls them.
CheckOrder == <<"constitutional-text", "tool-policies", "config-integrity", "file-permissions">>

\* One check of main, by name.
CheckNamed(name, g, su, t, file) ==
    CASE name = "constitutional-text" -> check_constitutional_text(g, su, t, file.doc)
      [] name = "tool-policies" -> check_tool_policies(g, su, t, file.doc)
      [] name = "config-integrity" -> check_config_integrity(g, su, t, file.doc, FALSE)
      [] OTHER -> check_file_permissions(g, su, t, file.perms)

\* The files, the gateway, and the log and FAILURES of the pass under way.
PassSoFar ==
    [Guardian(baseline, incidents, lockfile, gateway) EXCEPT
        !.events = run.events, !.failures = run.failures]

\* What a step leaves behind.
Left(g) ==
    /\ baseline' = g.baseline
    /\ incidents' = g.incidents
    /\ lockfile' = g.lockfile
    /\ gateway' = g.gateway

\* The process is alive.
Looping(p) == p.pc \in {"main", "pass", "sleep"}

Exited(p, status) == [p EXCEPT !.pc = "exited", !.status = status]

\* The entry point with WATCH_MODE true: options and commands, then
\* resolve_config and ensure_dirs, then run_watch.
StartWatch ==
    /\ process.pc = "none"
    /\ setup.watch
    /\ LET pre == Prelude(Guardian(baseline, incidents, lockfile, gateway), setup)
           resolved == IF pre.kind /= "die" /\ cfgfile.json = "missing"
                       THEN die(pre.g, "Config not found")
                       ELSE pre
       IN /\ process' = IF resolved.kind = "die"
                        THEN Exited(process, resolved.status)
                        ELSE [process EXCEPT !.pc = "main"]
          /\ run' = [kind |-> resolved.kind, events |-> resolved.g.events, failures |-> 0,
                     status |-> resolved.status]
    /\ UNCHANGED <<wvars, cvars, cfgfile, baseline, incidents, lockfile, gateway, setup>>

\* A loop that calls main whenever the process is alive.
Anytime(p) == Looping(p)

\* `while true; do main ...`: main is called at the top of the loop.
LoopReady(p) == p.pc = "main"

\* main up to FAILURES=0: a config file that is missing or not valid JSON
\* makes the script die, --init-baseline makes it write the baseline and
\* exit 0; otherwise the pass begins.
StartPass ==
    /\ LoopReady(process)
    /\ process.passes < MaxPasses
    /\ IF cfgfile.json /= "valid" \/ setup.initBaseline
       THEN LET r == main(Guardian(baseline, incidents, lockfile, gateway), setup, now, cfgfile)
            IN /\ Left(r.g)
               /\ run' = [kind |-> r.kind, events |-> r.g.events, failures |-> r.g.failures,
                          status |-> r.status]
               /\ process' = Exited(process, r.status)
       ELSE /\ run' = [kind |-> "check", events |-> << >>, failures |-> 0, status |-> 0]
            /\ process' = [process EXCEPT !.pc = "pass", !.todo = CheckOrder,
                                          !.passes = @ + 1, !.inflight = @ + 1]
            /\ UNCHANGED <<baseline, incidents, lockfile, gateway>>
    /\ UNCHANGED <<wvars, cvars, cfgfile, setup>>

\* The next check of the pass, with the incident, the alert and the pause of
\* a check that fails.
CheckStep ==
    /\ process.pc = "pass"
    /\ process.todo /= << >>
    /\ LET g == CheckNamed(Head(process.todo), PassSoFar, setup, now, cfgfile)
       IN /\ Left(g)
          /\ run' = [run EXCEPT !.events = g.events, !.failures = g.failures]
    /\ process' = [process EXCEPT !.todo = Tail(@)]
    /\ UNCHANGED <<wvars, cvars, cfgfile, setup>>

\* A loop without `|| true`: under set -e the status of main is the status of
\* the command.
WithoutOrTrue(status) == status

\* `main || true`: the status of the list is 0 whatever main returned.
OrTrue(status) == 0

\* The status of `sleep "$CHECK_INTERVAL"`: sleep rejects an interval that is
\* not a non-negative number.
sleep(interval) == IF interval < 0 THEN 1 ELSE 0

\* The end of main and the rest of the loop body: main returns 1 when a check
\* failed and 0 otherwise; then the sleep begins.  Under set -e a command of
\* the loop body that fails ends the script with its status.
EndPass ==
    /\ process.pc = "pass"
    /\ process.todo = << >>
    /\ LET status == IF run.failures > 0 THEN 1 ELSE 0
           ended == [process EXCEPT !.inflight = @ - 1,
                                    !.failed = IF status = 1 THEN @ + 1 ELSE @]
       IN /\ run' = [run EXCEPT !.status = status]
          /\ process' = IF OrTrue(status) /= 0
                        THEN Exited(ended, OrTrue(status))
                        ELSE IF sleep(setup.interval) /= 0
                        THEN Exited(ended, sleep(setup.interval))
                        ELSE [ended EXCEPT !.pc = "sleep",
                                           !.due = now + setup.interval * 1000]
    /\ UNCHANGED <<wvars, cvars, cfgfile, baseline, incidents, lockfile, gateway, setup>>

\* sleep returns, and the loop is at its top again.
Wake ==
    /\ process.pc = "sleep"
    /\ now >= process.due
    /\ process' = [process EXCEPT !.pc = "main"]
    /\ UNCHANGED <<wvars, cvars, cfgfile, baseline, incidents, lockfile, gateway, setup, run>>

\* SIGTERM or SIGINT reaches the shell.  The script sets no trap, so the
\* shell ends wherever it stands, with status 128 + the signal's number.
Signal ==
    /\ Looping(process)
    /\ \E status \in {130, 143} : process' = [process EXCEPT !.pc = "killed", !.status = status]
    /\ UNCHANGED <<wvars, cvars, cfgfile, baseline, incidents, lockfile, gateway, setup, run>>

\* openclaw.json is moved away, or is left half-written.
BreakConfig ==
    /\ Looping(process)
    /\ cfgfile.json = "valid"
    /\ \E j \in {"missing", "invalid"} : cfgfile' = [cfgfile EXCEPT !.json = j]
    /\ UNCHANGED <<wvars, cvars, baseline, incidents, lockfile, gateway, setup, run, process>>

\* The intervals given with --check-interval: one that sleep rejects, none,
\* and a second.
Intervals == {-1, 0, 1}

Watching(su, interval) == [su EXCEPT !.watch = TRUE, !.interval = interval]

\* Hosts where `--watch` meets a setup error or --init-baseline.
InitWatchSetups ==
    /\ \E j \in {"valid", "invalid", "missing"} :
          cfgfile = [ConfigFile(OpenDoc, <<"6", "0", "0">>) EXCEPT !.json = j]
    /\ baseline = NoFile
    /\ \E i \in BOOLEAN, o \in {"known", "unknown"}, c \in {Commands, Commands \ {"jq"}} :
          setup = [Watching(Setup(i, FALSE, "unset", Unavailable), 0) EXCEPT
                      !.options = o, !.commands = c]

\* Hosts where the loop runs: configs that pass, that fail one check, and one
\* that drifted from the baseline.
InitWatchChecks ==
    /\ \E f \in ConfigFiles \cup {ConfigFile(OpenDoc, <<"6", "0", "0">>),
                                 ConfigFile(DriftedDoc, <<"6", "6", "6">>)} : cfgfile = f
    /\ baseline \in {NoFile, current_hashes(CleanDoc)}
    /\ \E su \in Installs, i \in Intervals : setup = Watching(su, i)

InitWatch ==
    /\ WatcherIdle
    /\ ValidatorIdle
    /\ incidents = << >>
    /\ lockfile = NoFile
    /\ gateway = "running"
    /\ run = NoRun
    /\ process = NoProcess
    /\ InitWatchSetups \/ InitWatchChecks

NextWatch ==
    \/ StartWatch
    \/ StartPass
    \/ CheckStep
    \/ EndPass
    \/ Wake
    \/ Signal
    \/ BreakConfig
    \/ GuardianTick

SpecWatch == InitWatch /\ [][NextWatch]_vars

----------------------------------------------------------------------------
\* The claims about the watcher manager.

StateIds == 1..Len(states)
ProcIds == 1..Len(procs)
OpIds == 1..Len(ops)

\* The children spawned for state s.
ProcsOf(s) == {p \in ProcIds : procs[p].state = s}

\* A stop() call that has resolved.
StopResolved(o) == ops[o].kind = "stop" /\ ops[o].pc = "done"

\* C1: once a call to stop() has resolved, getRunningWatchers() is empty and no
\* child is spawned afterwards, whatever was in progress when stop() was called
\* (every updateConfig() call was made before that stop() call).
C1_StopIsFinal ==
    \A o \in OpIds :
        (StopResolved(o) /\ \A u \in OpIds : ops[u].kind = "update" => u < o)
        => /\ getRunningWatchers = {}
           /\ Len(procs) = ops[o].spawnedAtResolve

\* The watchers of cfg that are enabled and whose command has a character that
\* is not white space.
EnabledNames(cfg) ==
    {n \in Names : /\ cfg.hasWatchers
                   /\ n \in DOMAIN cfg.watchers
                   /\ cfg.watchers[n].enabled # "false"
                   /\ \E i \in 1..Len(cfg.watchers[n].command) :
                          ~IsSpace(cfg.watchers[n].command[i])}

\* C2: when the stop-then-start of updateConfig(newCfg) completes,
\* getRunningWatchers() is exactly the enabled, non-blank watchers of newCfg.
C2_UpdateReplaces ==
    [][\A o \in OpIds :
           (ops[o].pc = "then" /\ ops'[o].pc = "done")
           => getRunningWatchers' = EnabledNames(ops[o].cfg)]_vars

\* C3: when a call to stop() resolves, every child that was alive when it was
\* called has been sent SIGTERM and has exited or been sent SIGKILL.
C3_StopJoinsAll == \A o \in OpIds : StopResolved(o) => ops[o].alive = {}

\* C4: once stopWatcher has run for a state, its restart timer is cancelled, no
\* child is spawned for it any more, and no handler that runs afterwards changes
\* the state.
C4_NoRestartAfterStop ==
    [][\A s \in StateIds :
           states[s].stopped
           => /\ ~states[s].restartTimer.armed
              /\ ~states'[s].restartTimer.armed
              /\ \A p \in 1..Len(procs') : procs'[p].state = s => p <= Len(procs)
              /\ states'[s] = states[s]]_vars

\* A state stopped in the middle of a backoff wait (each of its children exited
\* unrequested), with the clock since advanced past the start.
C4_Witness ==
    \E s \in StateIds :
        /\ states[s].stopped
        /\ states[s].consecutiveRapidExits >= 1
        /\ Cardinality(ProcsOf(s)) = states[s].consecutiveRapidExits
        /\ \A p \in ProcsOf(s) : procs[p].status = "exited" /\ ~procs[p].term
        /\ now > states[s].lastStartedAt

\* C5: a watcher that was not stopped and whose child has terminated or failed
\* has its restart scheduled (so that the timer starts a new child).
C5_DeadChildRestarts ==
    \A s \in StateIds :
        ~states[s].stopped
        => \/ states[s].restartTimer.armed
           \/ /\ states[s].process # Null
              /\ procs[states[s].process].status = "running"

\* C8: every watcher state the manager creates, and so every child it spawns and
\* every name getRunningWatchers() returns, has a config that is not disabled
\* and a command that is not blank.
C8_OnlyEnabled ==
    /\ \A s \in StateIds :
           /\ states[s].config.enabled # "false"
           /\ \E i \in 1..Len(states[s].config.command) :
                  ~IsSpace(states[s].config.command[i])
    /\ \A p \in ProcIds : procs[p].state \in StateIds
    /\ \A n \in getRunningWatchers : watchers[n] \in StateIds

\* An updateConfig with a disabled and a blank watcher has completed, and a
\* watcher has been restarted.
C8_Witness ==
    /\ \E o \in OpIds : ops[o].kind = "update" /\ ops[o].pc = "done" /\ ops[o].cfg = CfgNew
    /\ \E s \in StateIds : Cardinality(ProcsOf(s)) >= 2
    /\ getRunningWatchers # {}

\* C9: SIGKILL is sent only after SIGTERM, only once 3 s have passed since
\* SIGTERM, and never to a child whose exit has been observed.
C9_GracefulThenForceful ==
    [][\A p \in ProcIds :
           (procs'[p].kill /\ ~procs[p].kill)
           => /\ procs[p].term
              /\ now >= procs[p].termAt + 3000
              /\ procs[p].status # "exited"]_vars

\* One child was sent SIGKILL; another exited after SIGTERM, and was not sent
\* SIGKILL though the 3 s have passed.
C9_Witness ==
    \E p, q \in ProcIds :
        /\ procs[p].kill
        /\ procs[q].term /\ procs[q].status = "exited" /\ ~procs[q].kill
        /\ now >= procs[q].termAt + 3000

\* The restarts scheduled after two exits in a row of state s, both rapid: the
\* i-th and the next.
RapidPairs(s) ==
    {i \in 1..(Len(restarts[s]) - 1) : restarts[s][i].rapid /\ restarts[s][i + 1].rapid}

\* C6, as claimed: after two rapid exits in a row the second restart delay is
\* strictly greater than the first, whatever restartDelaySeconds is.
C6_StrictlyGreater ==
    \A s \in StateIds : \A i \in RapidPairs(s) :
        restarts[s][i + 1].delaySeconds > restarts[s][i].delaySeconds

\* C6, amended: the second delay is never smaller than the first; it is strictly
\* greater when the first is above 0 and below the ceiling, and equal to the
\* first when the first is 0 or the ceiling.
C6_Monotonic ==
    \A s \in StateIds : \A i \in RapidPairs(s) :
        LET first == restarts[s][i].delaySeconds
            second == restarts[s][i + 1].delaySeconds
        IN /\ second >= first
           /\ (0 < first /\ first < 300) => second > first
           /\ (first = 0 \/ first = 300) => second = first

\* Three rapid exits in a row: the second delay above the first, the third at
\* the ceiling like the second.
C6_Witness ==
    \E s \in StateIds :
        /\ {1, 2} \subseteq RapidPairs(s)
        /\ restarts[s][2].delaySeconds > restarts[s][1].delaySeconds
        /\ restarts[s][3].delaySeconds = restarts[s][2].delaySeconds

RECURSIVE TwoToThe(_)
TwoToThe(e) == IF e = 0 THEN 1 ELSE 2 * TwoToThe(e - 1)

\* C7: the delay of every scheduled restart is base * 2^max(counter - 1, 0)
\* capped at 300, base being restartDelaySeconds or 5 and counter the rapid-exit
\* counter after the exit; it is never above 300.
C7_DelayFormula ==
    \A s \in StateIds :
        states[s].restartTimer.armed
        => LET given == states[s].config.restartDelaySeconds
               base == IF given = NoDelay THEN 5 ELSE given
               counter == states[s].consecutiveRapidExits
               e == IF counter - 1 > 0 THEN counter - 1 ELSE 0
               uncapped == base * TwoToThe(e)
           IN /\ states[s].restartTimer.delaySeconds =
                     (IF uncapped > 300 THEN 300 ELSE uncapped)
              /\ states[s].restartTimer.delaySeconds <= 300
              /\ states[s].restartTimer.due - now <= states[s].restartTimer.delaySeconds * 1000

\* A restart scheduled at the ceiling, where the uncapped delay is above it.
C7_Witness ==
    \E s \in StateIds :
        /\ states[s].restartTimer.armed
        /\ states[s].consecutiveRapidExits >= 2
        /\ states[s].config.restartDelaySeconds = 200
        /\ states[s].restartTimer.delaySeconds = 300

----------------------------------------------------------------------------
\* The claims about the constitution validator.

\* The call was made with a config that is not disabled, and returned a result.
EnabledCall ==
    /\ result.called
    /\ ~result.threw
    /\ ~(constitution.given /\ constitution.enabled = "false")

\* The action mode the call ran under: block unless the config says otherwise.
ActionMode ==
    IF constitution.given /\ constitution.action # "undefined"
    THEN constitution.action
    ELSE "block"

ErrorsIn(violations) == \E i \in 1..Len(violations) : violations[i].severity = "error"

\* C10: for every prompt and every enabled config, under action warn pass is
\* true whatever the violations, and under action block pass is false if and
\* only if a violation of the result has severity error.
C10_PassFollowsAction ==
    EnabledCall
    => /\ ActionMode = "warn" => result.pass
       /\ ActionMode = "block" => (~result.pass <=> ErrorsIn(result.violations))

\* A call under action warn that passed with a violation of severity error and
\* one of severity warn.
C10_Witness ==
    /\ EnabledCall
    /\ ActionMode = "warn"
    /\ ErrorsIn(result.violations)
    /\ \E i \in 1..Len(result.violations) : result.violations[i].severity = "warn"
    /\ result.pass

\* The rules the call ran under: those of the config, or the default rules.
RulesOfCall ==
    IF constitution.given /\ constitution.hasRules THEN constitution.rules ELSE DEFAULT_RULES

\* The enabled rule specs of the call whose checker reported the prompt, in order.
FiredRules ==
    SelectSeq(RulesOfCall, LAMBDA r : r.enabled /\ Checked(r.id, prompt) # << >>)

\* C11: every violation of the result has the severity of the rule spec it was
\* produced under, not the one built into the checker; so in block mode the call
\* passes when every rule that fired is configured warn, and is blocked when a
\* rule configured error fired.
C11_SeverityFromRuleSpec ==
    EnabledCall
    => /\ Len(result.violations) = Len(FiredRules)
       /\ \A i \in 1..Len(result.violations) :
              result.violations[i].severity = FiredRules[i].severity
       /\ ActionMode = "block"
          => (result.pass <=> \A i \in 1..Len(FiredRules) : FiredRules[i].severity = "warn")

\* A call in block mode that passed though a rule whose checker says error
\* fired: the rule spec had downgraded it to warn.
C11_Witness ==
    /\ EnabledCall
    /\ ActionMode = "block"
    /\ result.pass
    /\ \E i \in 1..Len(result.violations) :
           /\ result.violations[i].ruleId = "safety-section-present"
           /\ result.violations[i].severity = "warn"

\* The call ran under the default rules: the config gave no rules list.
DefaultRulesCall == EnabledCall /\ ~(constitution.given /\ constitution.hasRules)

\* The text "## Safety" is nowhere in the prompt.
HeaderMissing == \A i \in 1..Len(prompt) : prompt[i] # "## Safety"

ViolationOf(ruleId) ==
    \E i \in 1..Len(result.violations) : result.violations[i].ruleId = ruleId

\* C12: for every prompt without the header "## Safety", a call under the
\* default rules returns a safety-section-present violation, and in block mode
\* it does not pass.
C12_MissingHeaderFails ==
    (DefaultRulesCall /\ HeaderMissing)
    => /\ ViolationOf("safety-section-present")
       /\ ActionMode = "block" => ~result.pass

\* A prompt whose header is in lower case, blocked for the missing header.
C12_Witness ==
    /\ DefaultRulesCall
    /\ HeaderMissing
    /\ \E i \in 1..Len(prompt) : prompt[i] = "## safety"
    /\ ActionMode = "block"
    /\ ViolationOf("safety-section-present")
    /\ ~result.pass

\* The canonical header and body lines are in the prompt, as they are.
CanonicalPresent ==
    \E i \in 0..(Len(prompt) - Len(CANONICAL_SAFETY_TEXT)) :
        \A k \in 1..Len(CANONICAL_SAFETY_TEXT) : prompt[i + k] = CANONICAL_SAFETY_TEXT[k]

\* The patterns of all the pattern rules.
AllPatterns ==
    IGNORE_SAFETY_PATTERNS \o EXFILTRATION_PATTERNS \o REMOVE_TOOL_RESTRICTION_PATTERNS
    \o OVERRIDE_CONSTITUTION_PATTERNS \o IMPERSONATE_SYSTEM_PATTERNS

\* No pattern of any rule matches the prompt.
InjectionFree == \A k \in 1..Len(AllPatterns) : ~exec(AllPatterns[k], prompt)

\* C13: for every prompt that holds the exact canonical header and body and no
\* phrase a rule pattern matches, a call with the default config passes with no
\* violation.
C13_CanonicalPasses ==
    (DefaultRulesCall /\ ActionMode = "block" /\ CanonicalPresent /\ InjectionFree)
    => result.pass /\ result.violations = << >>

\* A passing call whose prompt has text before the canonical section and the
\* words of an injection phrase after it, not in a form a pattern matches.
C13_Witness ==
    /\ DefaultRulesCall
    /\ ActionMode = "block"
    /\ CanonicalPresent
    /\ InjectionFree
    /\ prompt[1] # "## Safety"
    /\ \E i \in 1..Len(prompt) : prompt[i] = "Ignore"
    /\ result.pass
    /\ result.violations = << >>

\* The config of the call without the rule specs whose id is not in the catalog.
CatalogOnly ==
    [constitution EXCEPT !.rules = SelectSeq(@, LAMBDA r : r.id \in RuleIds)]

\* C14: a rule spec whose id is not in the catalog is skipped without a sound:
\* the call does not throw, and its result is the one the other rule specs of
\* the config give.
C14_UnknownSkipped ==
    (result.called /\ ~(constitution.given /\ constitution.enabled = "false"))
    => /\ ~result.threw
       /\ result = validateConstitution(prompt, CatalogOnly)

\* C15: two calls with the same prompt and the same config return the same
\* outcome, whatever calls were made between them, and no call changes the
\* config it was given or the default rules.
C15_Deterministic ==
    /\ \A i, j \in 1..Len(calls) :
           (calls[i].prompt = calls[j].prompt /\ calls[i].config = calls[j].config)
           => calls[i].result = calls[j].result
    /\ \A i \in 1..Len(calls) : calls[i].configAfter = calls[i].config
    /\ defaults = DEFAULT_RULES

\* The same call made twice, with a call under another config between them
\* that found a violation under a rule whose severity the config had changed.
C15_Witness ==
    /\ Len(calls) = 3
    /\ calls[1].prompt = calls[3].prompt
    /\ calls[1].config = calls[3].config
    /\ calls[1].result.violations # << >>
    /\ calls[2].config # calls[1].config
    /\ calls[2].config.hasRules
    /\ \E i \in 1..Len(calls[2].result.violations) :
           /\ calls[2].result.violations[i].ruleId = "no-impersonate-system"
           /\ calls[2].result.violations[i].severity = "error"

----------------------------------------------------------------------------
\* Claims about the guardian.

\* The lines of kind k in the log of the last run.
EventsOf(kind) == SelectSeq(run.events, LAMBDA e : e.kind = kind)

\* The lines of kind k in the log of the run that a step ends with.
NewEventsOf(kind) == SelectSeq(run'.events, LAMBDA e : e.kind = kind)

\* C16: the baseline file is created or changed only by a run with
\* --init-baseline; a check pass, whatever its checks find, leaves it as it is.
C16_BaselineOnlyByInit ==
    [][/\ RunCheck => baseline' = baseline
       /\ baseline' /= baseline => RunInitBaseline]_vars

\* A check pass has found drift, and the baseline is still the one taken
\* before the edit.
C16_Witness ==
    /\ run.kind = "check"
    /\ run.failures > 0
    /\ baseline /= NoFile
    /\ baseline /= current_hashes(cfgfile.doc)

Documents ==
    {Document(d, a, h, p, l) :
        d \in SectionValues("agents.defaults"), a \in SectionValues("gateway.auth"),
        h \in SectionValues("gateway.host"), p \in SectionValues("gateway.dmPolicy"),
        l \in SectionValues("agents.list")}

\* The tracked sections in which the document differs from the document the
\* baseline was taken of.
ChangedSections ==
    LET before == CHOOSE d \in Documents : current_hashes(d) = baseline
    IN {s \in SectionNames : before[s] /= cfgfile.doc[s]}

\* The drift incidents of the pass that a step ends with.
NewDriftIncidents ==
    SelectSeq(NewEventsOf("incident"), LAMBDA e : e.name = "config-integrity")

\* C17: when exactly one tracked section differs from the baseline, the next
\* check pass records exactly one drift incident, of check config-integrity
\* and severity critical, whose details name that section.
C17_DriftNamesSection ==
    [][RunCheck /\ baseline /= NoFile /\ Cardinality(ChangedSections) = 1
       => /\ Len(NewDriftIncidents) = 1
          /\ NewDriftIncidents[1].severity = "critical"
          /\ ChangedSections \subseteq NewDriftIncidents[1].details]_vars

\* C18: a check pass on the document the baseline was taken of records no
\* drift incident and writes no config-integrity incident file, however
\* often it is run.
C18_NoDriftWithoutChange ==
    [][RunCheck /\ baseline = current_hashes(cfgfile.doc)
       => /\ NewDriftIncidents = << >>
          /\ \A i \in 1..Len(incidents') :
                incidents'[i].check = "config-integrity" =>
                    i <= Len(incidents) /\ incidents'[i] = incidents[i]]_vars

\* A check pass has compared the document with its own baseline and has
\* reported PASS for config-integrity.
C18_Witness ==
    /\ run.kind = "check"
    /\ baseline = current_hashes(cfgfile.doc)
    /\ \E i \in 1..Len(run.events) :
          run.events[i].kind = "PASS" /\ run.events[i].name = "config-integrity"

\* The checks of a pass, in the order main calls them.
Checks == <<"constitutional-text", "tool-policies", "config-integrity", "file-permissions">>

\* The lines with which the checks of the pass end, one per check that ran.
Outcomes(events) == SelectSeq(events, LAMBDA e : e.kind \in {"PASS", "FAIL", "skip"})

\* C19, as stated: after every check pass each of the four checks has
\* reported PASS or FAIL.
C19_EveryCheckReports ==
    run.kind = "check" =>
        \A c \in 1..Len(Checks) : \E i \in 1..Len(run.events) :
            run.events[i].name = Checks[c] /\ run.events[i].kind \in {"PASS", "FAIL"}

\* C19, amended: in every check pass the four checks run in order whatever
\* the others find; tool-policies and file-permissions report PASS or FAIL,
\* constitutional-text reports neither exactly when no prompt text is found,
\* and config-integrity reports neither exactly when there is no baseline.
C19_EveryCheckRuns ==
    [][RunCheck =>
        LET outcomes == Outcomes(run'.events)
        IN /\ Len(outcomes) = Len(Checks)
           /\ \A c \in 1..Len(Checks) : outcomes[c].name = Checks[c]
           /\ outcomes[1].kind = "skip" <=> all_prompt_text(cfgfile.doc).empty
           /\ outcomes[2].kind /= "skip"
           /\ outcomes[3].kind = "skip" <=> baseline = NoFile
           /\ outcomes[4].kind /= "skip"]_vars

\* A pass in which one check reported nothing and a later one failed.
C19_Witness ==
    /\ run.kind = "check"
    /\ \E i, j \in 1..Len(run.events) :
          /\ i < j
          /\ run.events[i].kind = "skip"
          /\ run.events[j].kind = "FAIL"

\* The methods at hand on the host, in the order pause_gateway tries them.
MethodsAtHand == SelectSeq(StopMethods, LAMBDA m : setup.methods[m] /= "unavailable")

\* The methods pause_gateway has to try: those at hand, up to the first that
\* succeeds.
MethodsToTry ==
    LET works == {i \in 1..Len(MethodsAtHand) : setup.methods[MethodsAtHand[i]] = "succeeds"}
    IN IF works = {}
       THEN MethodsAtHand
       ELSE SubSeq(MethodsAtHand, 1, CHOOSE i \in works : \A j \in works : i <= j)

\* The last run raised a critical incident under --pause-gateway.
PauseAttempted ==
    /\ run.kind = "check"
    /\ setup.pauseGateway
    /\ \E i \in 1..Len(run.events) :
          run.events[i].kind = "incident" /\ run.events[i].severity = "critical"

\* C20: a pause tries the stop methods at hand in the order CLI, node,
\* systemd, launchd, up to the first that succeeds; it writes the lock file
\* with locked:true exactly when none succeeds, so it ends with the gateway
\* stopped or with the lock file present.
C20_StopOrLock ==
    PauseAttempted =>
        LET tried == EventsOf("stop")
            stopped == \E i \in 1..Len(tried) : tried[i].severity = "succeeded"
        IN /\ Len(tried) = Len(MethodsToTry)
           /\ \A i \in 1..Len(tried) :
                /\ tried[i].name = MethodsToTry[i]
                /\ tried[i].severity = "succeeded" <=> setup.methods[tried[i].name] = "succeeds"
                /\ tried[i].severity = "succeeded" => i = Len(tried)
           /\ stopped <=> EventsOf("lock") = << >>
           /\ stopped => gateway = "stopped"
           /\ ~stopped => lockfile /= NoFile /\ lockfile[1].locked

\* A pause in which a method failed and a later one stopped the gateway.
C20_Witness ==
    /\ PauseAttempted
    /\ \E i, j \in 1..Len(run.events) :
          /\ i < j
          /\ run.events[i].kind = "stop" /\ run.events[i].severity = "failed"
          /\ run.events[j].kind = "stop" /\ run.events[j].severity = "succeeded"
    /\ gateway = "stopped"
    /\ lockfile = NoFile

\* C21: every failed check of a pass adds an incident file of its own, and
\* no pass changes or replaces an incident file that was there before it.
C21_IncidentsAppendOnly ==
    [][RunCheck =>
        /\ Len(incidents') = Len(incidents) + Len(NewEventsOf("FAIL"))
        /\ \A i \in 1..Len(incidents) : incidents'[i] = incidents[i]]_vars

\* The log of a run without the lines about the alert command.
WithoutAlerts(events) == SelectSeq(events, LAMBDA e : e.kind \notin {"alert", "error"})

\* The same run on the same files, had the alert command succeeded.
RunWithAlertOk ==
    run_once(Guardian(baseline, incidents, lockfile, gateway),
             [setup' EXCEPT !.alertCmd = "ok"], now, cfgfile)

\* C24: a check pass whose alert command fails logs the failure for every
\* alert and otherwise does what it does when the command succeeds: the same
\* incident files, the same pause, the same checks, the same failure count and
\* exit status.
C24_AlertFailureOnlyLogged ==
    [][RunCheck /\ setup.alertCmd = "fails" =>
        /\ incidents' = RunWithAlertOk.g.incidents
        /\ lockfile' = RunWithAlertOk.g.lockfile
        /\ gateway' = RunWithAlertOk.g.gateway
        /\ baseline' = RunWithAlertOk.g.baseline
        /\ run'.failures = RunWithAlertOk.g.failures
        /\ run'.status = RunWithAlertOk.status
        /\ WithoutAlerts(run'.events) = WithoutAlerts(RunWithAlertOk.g.events)
        /\ Len(NewEventsOf("error")) = Len(NewEventsOf("alert"))]_vars

\* A pass in which the alert command failed, the pause was still attempted
\* and a later check still reported.
C24_Witness ==
    /\ run.kind = "check"
    /\ setup.alertCmd = "fails"
    /\ \E i, j, k \in 1..Len(run.events) :
          /\ i < j /\ j < k
          /\ run.events[i].kind = "error"
          /\ run.events[j].kind \in {"stop", "lock"}
          /\ run.events[k].kind \in {"PASS", "FAIL"}

\* What the claims call a setup error: the config file is not found or is
\* not valid JSON, an option is unknown, or a required command is missing (jq,
\* and one of sha256sum and shasum).
SetupError ==
    \/ cfgfile.json /= "valid"
    \/ setup.options = "unknown"
    \/ "jq" \notin setup.commands
    \/ setup.commands \cap {"sha256sum", "shasum"} = {}

\* C25: a one-shot run exits with 2 on a setup error; without one, a run with
\* --init-baseline exits with 0, and a check pass exits with 0 exactly when no
\* check failed and with 1 exactly when at least one failed.
C25_ExitCodes ==
    run.kind /= "none" =>
        /\ SetupError => run.status = 2
        /\ ~SetupError /\ setup.initBaseline => run.status = 0
        /\ ~SetupError /\ ~setup.initBaseline =>
              /\ run.status = 0 <=> run.failures = 0
              /\ run.status = 1 <=> run.failures > 0

\* The conditions the policy check is to flag, as the claim lists them.
FlaggedConditions(doc) ==
    (IF doc["agents.defaults"] \in {"stripped", "allow", "wideopen"}
     THEN {"Elevated exec enabled by default"} ELSE {})
    \cup (IF doc["agents.defaults"] \in {"unrestricted", "wideopen"}
          THEN {"Exec security set to 'full' by default"} ELSE {})
    \cup (IF doc["agents.list"] \in {"elevated", "both"}
          THEN {"Agent: elevated exec enabled"} ELSE {})
    \cup (IF doc["agents.list"] \in {"full", "both"}
          THEN {"Agent: exec security set to 'full'"} ELSE {})
    \cup (IF doc["gateway.dmPolicy"] = "open" THEN {"Gateway DM policy is 'open'"} ELSE {})
    \cup (IF /\ doc["gateway.host"] \notin {"absent", "false", "localhost", "127.0.0.1", "::1"}
             /\ doc["gateway.auth"] \in {"absent", "false", "none"}
          THEN {"Gateway bound without auth configured"} ELSE {})

\* The incidents of a check that the last run recorded.
IncidentsOf(check_name) == SelectSeq(EventsOf("incident"), LAMBDA e : e.name = check_name)

\* C26: a check pass records exactly one tool-policies incident, of severity
\* high and listing every condition that holds, when at least one flagged
\* condition holds of the document, and none when no condition holds.
C26_PolicyIncidentIffFlagged ==
    run.kind = "check" =>
        IF FlaggedConditions(cfgfile.doc) /= {}
        THEN /\ Len(IncidentsOf("tool-policies")) = 1
             /\ IncidentsOf("tool-policies")[1].severity = "high"
             /\ IncidentsOf("tool-policies")[1].details = FlaggedConditions(cfgfile.doc)
        ELSE IncidentsOf("tool-policies") = << >>

\* The world-write bit of a mode: the 2 in its last octal digit.
WorldWriteBit(perms) == perms[Len(perms)] \in {"2", "3", "6", "7"}

\* C27: a check pass records a file-permissions incident, of severity
\* medium, exactly when the mode of the config file has the world-write bit.
C27_WorldWritableFlagged ==
    run.kind = "check" =>
        IF WorldWriteBit(cfgfile.perms)
        THEN /\ Len(IncidentsOf("file-permissions")) = 1
             /\ IncidentsOf("file-permissions")[1].severity = "medium"
        ELSE IncidentsOf("file-permissions") = << >>

\* The process ends by itself in this step.
Exits == process.pc /= "exited" /\ process'.pc = "exited"

\* The pass that ends in this step leaves the loop running.
LoopGoesOn == EndPass /\ sleep(setup.interval) = 0 => process'.pc = "sleep"

\* C22 (as stated): in watch mode a pass with any number of failed checks is
\* followed by the sleep, and the process ends by itself only on a setup
\* error: the script died.
C22_OnlySetupErrorsTerminate ==
    [][LoopGoesOn /\ (Exits => run'.kind = "die")]_vars

\* C22: in watch mode the process never ends because a check failed: a pass
\* with any number of failed checks is followed by the sleep, provided sleep
\* accepts the interval.  The process ends by itself on a setup error, with
\* status 2; with --init-baseline, once the baseline is written, with status
\* 0; and after its first pass, whatever the checks found, with the status of
\* sleep when sleep rejects the interval.
C22_FailuresNeverTerminate ==
    [][/\ LoopGoesOn
       /\ Exits =>
             \/ run'.kind = "die" /\ process'.status = 2
             \/ run'.kind = "init" /\ setup.initBaseline /\ process'.status = 0
             \/ /\ EndPass
                /\ sleep(setup.interval) /= 0
                /\ process'.status = sleep(setup.interval)]_vars

\* A pass with a failed check was followed by the sleep and by the next pass.
C22_Witness ==
    /\ process.failed >= 1
    /\ process.passes = 2
    /\ process.pc = "pass"
    /\ setup.interval = 1

\* C23: a termination signal ends the process only between passes: of a
\* process that a signal ended, no pass is left unfinished.
C23_SignalOnlyBetweenPasses ==
    process.pc = "killed" => process.inflight = 0 /\ process.todo = << >>

\* C28: at most one pass is in flight: a pass begins only when no pass is in
\* flight and, after the first, when the interval has passed since the pass
\* before it ended, however long that pass took.
C28_OnePassInFlight ==
    [][process'.passes > process.passes =>
          /\ process.inflight = 0
          /\ process'.inflight = 1
          /\ process.passes > 0 => now >= process.due]_vars

\* The second pass is under way after a first pass that began in second 0,
\* ran an alert command and took until second 1.
C28_Witness ==
    /\ process.passes = 2
    /\ process.inflight = 1
    /\ process.pc = "pass"
    /\ setup.alertCmd /= "unset"
    /\ setup.interval = 0
    /\ process.due = 1000
    /\ \E i \in 1..Len(incidents) : incidents[i].name[1] = 0

\* The children that are supervised: alive, and their state not marked
\* stopped.
Supervised == {p \in ProcIds : procs[p].status = "running" /\ ~states[procs[p].state].stopped}

\* The state of child p is the one the map holds under its name.
InMap(p) == watchers[states[procs[p].state].name] = procs[p].state

\* C29: when updateConfig(B) was called before the stop phase of an earlier
\* updateConfig(A) had finished, then at the moment both calls have settled
\* getRunningWatchers() is exactly the enabled watchers of B, each with the
\* config B gives it, and every supervised child is the child of a state in
\* the map: none is left of what was started for A.
C29_LastUpdateWins ==
    [][\A a \in OpIds, b \in OpIds :
          (/\ ops[b].kind = "update"
           /\ a \in ops[b].during
           /\ ops[a].pc /= "done" \/ ops[b].pc /= "done"
           /\ ops'[a].pc = "done" /\ ops'[b].pc = "done")
          => /\ getRunningWatchers' = EnabledNames(ops[b].cfg)
             /\ \A n \in getRunningWatchers' :
                   states'[watchers'[n]].config = ops[b].cfg.watchers[n]
             /\ \A p \in Supervised' : InMap(p)']_vars

\* C30: every supervised child is the child of a state in the map, and no
\* two supervised children belong to watchers of the same name.
C30_NoOrphans ==
    /\ \A p \in Supervised : InMap(p)
    /\ \A p \in Supervised, q \in Supervised :
          states[procs[p].state].name = states[procs[q].state].name => p = q

\* C31: a check pass without a baseline file records no config-integrity
\* incident, counts no failure for config-integrity and creates no baseline:
\* FAILURES and the exit status are those of the other three checks.
C31_NoBaselineNoFailure ==
    [][RunCheck /\ baseline = NoFile =>
          /\ baseline' = NoFile
          /\ \A i \in 1..Len(run'.events) :
                run'.events[i].name = "config-integrity" => run'.events[i].kind = "skip"
          /\ \A i \in 1..Len(incidents') :
                incidents'[i].check = "config-integrity" =>
                    i <= Len(incidents) /\ incidents[i] = incidents'[i]
          /\ run'.failures = Len(SelectSeq(run'.events, LAMBDA e : e.kind = "FAIL"))
          /\ run'.status = IF run'.failures > 0 THEN 1 ELSE 0]_vars

\* A pass without a baseline ended with no check failed and status 0.
C31_Witness ==
    /\ baseline = NoFile
    /\ run.kind = "check"
    /\ run.status = 0
    /\ run.failures = 0
    /\ \E i \in 1..Len(run.events) :
          run.events[i].kind = "skip" /\ run.events[i].name = "config-integrity"

\* The sections that have a record in the baseline file.
Recorded == {baseline[i].section : i \in 1..Len(baseline)} \ {""}

\* The sections whose record in the baseline file differs from their hash
\* now.
Mismatched ==
    {baseline[i].section : i \in {j \in 1..Len(baseline) :
        /\ baseline[j] /= BlankLine
        /\ baseline[j].hash /= current_hashes(cfgfile.doc)[
               CHOOSE k \in 1..(Len(Sections) + 1) :
                   current_hashes(cfgfile.doc)[k].section = baseline[j].section].hash}}

\* C32: the comparison checks exactly the records of the baseline file: a
\* pass reports drift exactly for the recorded sections whose hash differs,
\* never for a section without a record, and a file without records makes
\* config-integrity pass.
C32_OnlyRecordedSectionsCompared ==
    [][RunCheck /\ baseline /= NoFile =>
          /\ \A i \in 1..Len(NewDriftIncidents) :
                /\ NewDriftIncidents[i].details = Mismatched
                /\ NewDriftIncidents[i].details \subseteq Recorded
          /\ (NewDriftIncidents = << >>) = (Mismatched = {})
          /\ Recorded = {} =>
                \E i \in 1..Len(run'.events) :
                    run'.events[i].kind = "PASS" /\ run'.events[i].name = "config-integrity"]_vars

\* A pass reported PASS for config-integrity although a tracked section had
\* changed: the baseline file held no record of that section, nor of the
\* whole document.
C32_Witness ==
    /\ run.kind = "check"
    /\ baseline /= NoFile
    /\ cfgfile.doc["gateway.host"] = "0.0.0.0"
    /\ "gateway.host" \notin Recorded
    /\ "__full__" \notin Recorded
    /\ Recorded /= {}
    /\ \E i \in 1..Len(run.events) :
          run.events[i].kind = "PASS" /\ run.events[i].name = "config-integrity"

\* An enabled rule spec of the sequence rules names the catalog rule id, and
\* its checker reports the prompt.
FiresUnder(rules, id) ==
    /\ \E i \in 1..Len(rules) : rules[i].id = id /\ rules[i].enabled
    /\ RULE_CHECKERS(id, prompt) # << >>

\* C33: a call that gives a rules list is checked under exactly the enabled
\* rules of that list: a catalog rule has a violation in the result if and
\* only if the list names it enabled and its checker reports the prompt, and
\* an empty list passes every prompt with no violation.  A call without a
\* rules list is checked under all seven default rules, and a call without
\* an action mode is blocked by a violation of severity error.
C33_RulesListReplacesDefaults ==
    EnabledCall
    => /\ (constitution.given /\ constitution.hasRules)
          => /\ \A id \in RuleIds : ViolationOf(id) <=> FiresUnder(constitution.rules, id)
             /\ constitution.rules = << >> => result.pass /\ result.violations = << >>
       /\ ~(constitution.given /\ constitution.hasRules)
          => /\ Len(DEFAULT_RULES) = 7
             /\ \A id \in RuleIds : ViolationOf(id) <=> RULE_CHECKERS(id, prompt) # << >>
       /\ ~(constitution.given /\ constitution.action # "undefined")
          => (result.pass <=> ~ErrorsIn(result.violations))

\* A call with an empty rules list passed a prompt that has no safety section
\* and tells the agent to ignore its safety rules.
C33_Witness ==
    /\ EnabledCall
    /\ constitution.given
    /\ constitution.hasRules
    /\ constitution.rules = << >>
    /\ HeaderMissing
    /\ RULE_CHECKERS("no-ignore-safety", prompt) # << >>
    /\ result.pass
    /\ result.violations = << >>

\* The violations follow the order of the rule specs they were found under.
InRuleOrder ==
    \E f \in [1..Len(result.violations) -> 1..Len(RulesOfCall)] :
        /\ \A i \in 1..Len(result.violations) :
              CheckerKind(RulesOfCall[f[i]].id) = "checker"
              => result.violations[i].ruleId = RulesOfCall[f[i]].id
        /\ \A i, j \in 1..Len(result.violations) : i < j => f[i] < f[j]

\* C34: the result of a call holds at most one violation per rule id,
\* whatever the rules list, a list that names an id more than once included,
\* and the violations are in the order of the rules of the config.
C34_OneViolationPerRule ==
    EnabledCall
    => /\ \A i, j \in 1..Len(result.violations) :
              result.violations[i].ruleId = result.violations[j].ruleId => i = j
       /\ InRuleOrder

\* The call ran with an enabled rule spec of this id.
RuleEnabled(id) == \E i \in 1..Len(RulesOfCall) : RulesOfCall[i].id = id /\ RulesOfCall[i].enabled

\* C35: no result holds a violation of safety-section-present and one of
\* safety-section-unmodified; where the rules are enabled,
\* safety-section-unmodified fires exactly when the header "## Safety" is in
\* the prompt and the exact canonical text is not, and safety-section-present
\* exactly when the header is not in the prompt.
C35_SectionRulesExclusive ==
    EnabledCall
    => /\ ~(ViolationOf("safety-section-present") /\ ViolationOf("safety-section-unmodified"))
       /\ RuleEnabled("safety-section-unmodified")
          => (ViolationOf("safety-section-unmodified") <=> (~HeaderMissing /\ ~CanonicalPresent))
       /\ RuleEnabled("safety-section-present")
          => (ViolationOf("safety-section-present") <=> HeaderMissing)

\* A prompt whose safety section was rewritten: the call reports
\* safety-section-unmodified and not safety-section-present.
C35_Witness ==
    /\ EnabledCall
    /\ RuleEnabled("safety-section-present")
    /\ RuleEnabled("safety-section-unmodified")
    /\ ~HeaderMissing
    /\ ~CanonicalPresent
    /\ Len(prompt) > 1
    /\ ViolationOf("safety-section-unmodified")
    /\ ~ViolationOf("safety-section-present")

\* Child p exits in this step, and its state is not marked stopped.
Unrequested(p) ==
    /\ procs[p].status = "running"
    /\ procs'[p].status = "exited"
    /\ ~states[procs[p].state].stopped

\* C36: on every exit that was not requested, the rapid-exit counter of the
\* watcher goes up by one when less than 10 s have passed since its last
\* start, and to zero otherwise; after an exit of a child that ran 10 s or
\* longer the restart is scheduled with the base delay (restartDelaySeconds
\* or 5, at most 300).
C36_CounterFollowsElapsed ==
    [][\A p \in ProcIds :
          Unrequested(p)
          => LET s == procs[p].state
                 elapsed == now - states[s].lastStartedAt
                 given == states[s].config.restartDelaySeconds
                 base == IF given = NoDelay THEN 5 ELSE given
             IN /\ elapsed < 10000
                   => states'[s].consecutiveRapidExits = states[s].consecutiveRapidExits + 1
                /\ elapsed >= 10000
                   => /\ states'[s].consecutiveRapidExits = 0
                      /\ states'[s].restartTimer.armed
                      /\ states'[s].restartTimer.delaySeconds =
                            (IF base > 300 THEN 300 ELSE base)]_vars

\* A watcher that had backed off to twice its base delay ran 10 s or longer,
\* exited, and is to be restarted after the base delay.
C36_Witness ==
    \E s \in StateIds :
        /\ Len(restarts[s]) >= 3
        /\ restarts[s][1].rapid
        /\ restarts[s][2].rapid
        /\ restarts[s][2].delaySeconds = 2
        /\ ~restarts[s][3].rapid
        /\ restarts[s][3].delaySeconds = 1
        /\ states[s].consecutiveRapidExits = 0
        /\ states[s].restartTimer.armed

\* C37: no WatcherState holds a process handle and a restart timer at once,
\* and a state that stopWatcher has run for holds neither, whatever happens
\* afterwards.
C37_HandleOrTimer ==
    \A s \in StateIds :
        /\ ~(states[s].process # Null /\ states[s].restartTimer.set)
        /\ states[s].restartTimer.armed => states[s].restartTimer.set
        /\ states[s].stopped
           => /\ states[s].process = Null
              /\ ~states[s].restartTimer.set

\* One watcher waits for its restart, without a handle; another was
\* restarted, and holds a handle and no timer; a third was stopped in its
\* backoff wait.
C37_Witness ==
    /\ \E s \in StateIds :
          /\ ~states[s].stopped
          /\ states[s].restartTimer.armed
          /\ states[s].process = Null
    /\ \E s \in StateIds :
          /\ states[s].stopped
          /\ Len(restarts[s]) >= 1
          /\ \A p \in ProcsOf(s) : procs[p].status = "exited" /\ ~procs[p].term
          /\ states[s].process = Null
          /\ ~states[s].restartTimer.set

\* The steps a failed check takes after its FAIL line, and their order.
FailSteps == {"incident", "alert", "error", "stop", "lock"}

StepRank(kind) ==
    CASE kind = "incident" -> 1
      [] kind = "alert" -> 2
      [] kind = "error" -> 3
      [] kind = "stop" -> 4
      [] OTHER -> 5

\* The steps that follow the FAIL line at i, up to the next line of a check.
StepsAfter(i) ==
    {k \in (i + 1)..Len(run.events) :
        \A j \in (i + 1)..k : run.events[j].kind \in FailSteps}

FailLines == {i \in 1..Len(run.events) : run.events[i].kind = "FAIL"}

\* C38: in a pass, every failed check is counted, then writes its incident
\* file, then runs the alert command if one is configured, and then, for a
\* critical failure of a run with --pause-gateway and for no other, pauses
\* the gateway; the next check reports only after these steps, and no such
\* step happens anywhere else.
C38_FailStepsInOrder ==
    run.kind = "check"
    => /\ run.failures = Cardinality(FailLines)
       /\ \A k \in 1..Len(run.events) :
             run.events[k].kind \in FailSteps => \E i \in FailLines : k \in StepsAfter(i)
       /\ \A i \in FailLines :
             /\ i + 1 \in StepsAfter(i)
             /\ run.events[i + 1].kind = "incident"
             /\ run.events[i + 1].name = run.events[i].name
             /\ \A j \in StepsAfter(i), k \in StepsAfter(i) :
                   j < k => /\ StepRank(run.events[j].kind) <= StepRank(run.events[k].kind)
                            /\ StepRank(run.events[j].kind) = StepRank(run.events[k].kind)
                               => run.events[j].kind = "stop"
             /\ (\E k \in StepsAfter(i) : run.events[k].kind = "alert")
                <=> setup.alertCmd # "unset"
             /\ (\E k \in StepsAfter(i) : run.events[k].kind \in {"stop", "lock"})
                <=> (setup.pauseGateway /\ run.events[i].severity = "critical")

\* A pass in which a check of severity high failed and alerted without a
\* pause, and config-integrity then failed, alerted, had two stop methods
\* fail and a third succeed, before file-permissions reported.
C38_Witness ==
    /\ run.kind = "check"
    /\ setup.pauseGateway
    /\ setup.alertCmd = "fails"
    /\ \E i \in FailLines, j \in FailLines :
          /\ i < j
          /\ run.events[i].severity = "high"
          /\ run.events[j].severity = "critical"
          /\ Cardinality(StepsAfter(i)) = 3
          /\ Cardinality(StepsAfter(j)) = 6
          /\ run.events[j + 6].kind = "stop"
          /\ run.events[j + 6].severity = "succeeded"
          /\ Len(run.events) > j + 6

\* The o-th call of the manager is a call of stop().
StopWasCalled(o) == o \in 1..Len(ops) /\ ops[o].kind = "stop"

\* The promise of the o-th call has resolved.
PromiseResolved(o) == o \in 1..Len(ops) /\ ops[o].pc = "done"

\* C39: every call of stop() eventually resolves, whether the children exit,
\* ignore SIGTERM, never emit 'exit', or are absent (mid-backoff).
C39_StopResolves == \A o \in 1..MaxOps : StopWasCalled(o) ~> PromiseResolved(o)

\* A stop() has resolved after it waited for a child that never exited and
\* was sent SIGKILL by the timeout, and after it stopped a watcher that had
\* no process because it was waiting for its restart.
C39_Witness ==
    \E o \in 1..Len(ops) :
        /\ PromiseResolved(o)
        /\ ops[o].kind = "stop"
        /\ \E p \in 1..Len(procs) :
              /\ procs[p].waiter = o
              /\ procs[p].kill
              /\ procs[p].status # "exited"
        /\ \E s \in 1..Len(states) :
              /\ states[s].stopped
              /\ restarts[s] # << >>
              /\ \A p \in 1..Len(procs) : procs[p].state = s => procs[p].waiter = Null

====
